---- MODULE Spec2Model ----
(***************************************************************************)
(* Ethermint transaction bridge: the wire transaction (types/tx.go), its   *)
(* EIP-155 signature codec, the embedded SDK batch, the ante handler       *)
(* (handlers/ante.go) that validates both against the account store, and   *)
(* the repository's own account mapper (db/mapper.go).                     *)
(*                                                                         *)
(* Cryptography is symbolic.  A hash is the tuple of what was hashed; an   *)
(* ECDSA signature (r, s, recid) is the record of the key and hash it was  *)
(* made with; recovery over the signed hash with the issued recovery id    *)
(* gives the signer's address and recovery over anything else gives an     *)
(* unrelated address.  All arithmetic on v (big.Int, uint64, byte) is      *)
(* concrete.                                                               *)
(***************************************************************************)
EXTENDS Integers, Sequences, FiniteSets, TLC

VARIABLES
    build,           \* which secp256k1 binding go-ethereum was built with
    sdkAddress,      \* types.sdkAddress, the process-wide reserved address
    sdkAddressOnce,  \* types.sdkAddressOnce: TRUE once Do has run
    accounts,        \* the account store: address -> sequence, or NoAccount
    tx,              \* the transaction last built (NewTransaction, Sign)
    ctxChainID,      \* ctx.ChainID() of the last handler call
    out,             \* outcome of the last handler call
    accepted,        \* embedded submissions accepted so far (history)
    reqIn,           \* messages last given to GetRequiredSigners
    reqOut,          \* its result
    ret,             \* the last call of a db.AccountMapper method and its result
    call,            \* the last call of a Transaction method and its result
    onceM,           \* sdkAddressOnce.m: the goroutine that holds it, or NoHolder
    gor,             \* goroutines: where each is in SetSDKAddress, and its argument
    hist,            \* history of sdkAddressOnce: who ran, who returned, what was read
    argSDKAddress,   \* the sdkAddress argument the handler in use was created with
    prevRun,         \* an earlier handler call on the transaction in hand, kept
    revision,        \* which of the two types/tx.go in the tree is compiled in
    mapSeed          \* the Go runtime's order of iteration over a map, this time

vars == <<build, sdkAddress, sdkAddressOnce, accounts, tx, ctxChainID, out,
          accepted, reqIn, reqOut, ret, call, onceM, gor, hist, argSDKAddress,
          prevRun, revision, mapSeed>>

(***************************************************************************)
(* Bounds of the model.                                                    *)
(***************************************************************************)
MaxChainId == 131    \* chain ids 0..MaxChainId in the signature checks
MaxSeq == 2          \* a handler call is made while sequences are below it
MaxMsgs == 2         \* messages per embedded batch
MaxGas == 6          \* gas limits 0..MaxGas, in store accesses
MaxSigners == 2      \* declared signers per message in GetRequiredSigners
MaxGoroutines == 3   \* goroutines that call SetSDKAddress and read the address
MaxDrift == 4        \* how far v may fall below the v received, in repeated runs
GasBits == 4         \* width of the gas words: uint64 and int64 scaled down

Abs(n) == IF n < 0 THEN 0 - n ELSE n
Range(s) == {s[i] : i \in 1..Len(s)}
SeqsUpTo(S, n) == UNION {[1..k -> S] : k \in 0..n}

(***************************************************************************)
(* Addresses.  A key and the address derived from it carry the same name.  *)
(***************************************************************************)
Keys == {"A", "B"}
ZeroAddr == "0x0"                      \* ethcmn.Address{}
Recipients == {ZeroAddr, "R", "P"}
NilRecipient == "nil"                  \* a nil *ethcmn.Address: contract creation
GarbageAddr == "?"                     \* an address no modelled key has
NoAccount == -1
PrivKeyToAddress(k) == k

(***************************************************************************)
(* The context's chain id is a string: a sequence of characters.           *)
(***************************************************************************)
Digits == <<"0", "1", "2", "3", "4", "5", "6", "7", "8", "9">>
DigitVal(c) == CHOOSE d \in 0..9 : Digits[d + 1] = c
IsDigit(c) == \E d \in 0..9 : Digits[d + 1] = c

RECURSIVE DigitsValue(_)
DigitsValue(s) ==
    IF s = <<>> THEN 0
    ELSE 10 * DigitsValue(SubSeq(s, 1, Len(s) - 1)) + DigitVal(s[Len(s)])

\* new(big.Int).SetString(s, 10): optional sign, then one or more digits.
SetStringOK(s) ==
    LET body == IF s # <<>> /\ s[1] \in {"-", "+"} THEN Tail(s) ELSE s
    IN  body # <<>> /\ \A i \in 1..Len(body) : IsDigit(body[i])
SetStringValue(s) ==
    IF s[1] = "-" THEN 0 - DigitsValue(Tail(s))
    ELSE IF s[1] = "+" THEN DigitsValue(Tail(s))
    ELSE DigitsValue(s)

\* The decimal form of n >= 0, as the caller writes it into the header.
RECURSIVE Decimal(_)
Decimal(n) ==
    IF n < 10 THEN <<Digits[n + 1]>>
    ELSE Decimal(n \div 10) \o <<Digits[(n % 10) + 1]>>

(***************************************************************************)
(* big.Int and machine arithmetic used on v.                               *)
(***************************************************************************)
Uint64(x) == Abs(x)                  \* big.Int.Uint64 of |x| < 2^64
Byte(x) == x % 256                   \* byte(uint64 x), also after wrap-around
BitLenLE8(x) == Abs(x) < 256         \* big.Int.BitLen(x) <= 8
Sign0(x) == x = 0                    \* big.Int.Sign(x) == 0

(***************************************************************************)
(* types.Transaction.  TxBody is the six fields that are hashed; RS is the *)
(* pair (r, s): ZeroRS for r = s = 0, else the signature crypto.Sign made; *)
(* `from` is the sender cache beside the data.                             *)
(***************************************************************************)
ZeroRS == [zero |-> TRUE]
NoFrom == "nil"                        \* the `from` cache with nothing stored

NewTransaction(nonce, to, amount, gasLimit, gasPrice, data) ==
    [nonce |-> nonce, price |-> gasPrice, gasLimit |-> gasLimit,
     recipient |-> to, amount |-> amount, payload |-> data,
     V |-> 0, RS |-> ZeroRS, from |-> NoFrom]

TxBody(t) ==
    [nonce |-> t.nonce, price |-> t.price, gasLimit |-> t.gasLimit,
     recipient |-> t.recipient, amount |-> t.amount, payload |-> t.payload]

\* RLP items.  An integer is its big-endian bytes without leading zeros, 0
\* being the empty string.  An address, a payload and the halves r and s of
\* a signature are byte strings whose content stays symbolic: one element
\* stands for their bytes.
EmptyItem == <<>>

RECURSIVE BigEndian(_)
BigEndian(n) == IF n = 0 THEN <<>> ELSE BigEndian(n \div 256) \o <<n % 256>>

RECURSIVE FromBigEndian(_)
FromBigEndian(b) ==
    IF b = <<>> THEN 0
    ELSE 256 * FromBigEndian(SubSeq(b, 1, Len(b) - 1)) + b[Len(b)]

EmptyPayload == [enc |-> "raw", val |-> ""]          \* a payload of no bytes
PayloadItem(data) == IF data = EmptyPayload THEN EmptyItem ELSE <<data>>
RItem(RS) == IF RS = ZeroRS THEN EmptyItem ELSE <<[half |-> "r", sig |-> RS]>>
SItem(RS) == IF RS = ZeroRS THEN EmptyItem ELSE <<[half |-> "s", sig |-> RS]>>

\* rlp.Encode refuses a negative *big.Int.
EncodeRLPFails(t) == t.price < 0 \/ t.amount < 0 \/ t.V < 0

\* EncodeRLP writing an absent recipient as the zero address.
EncodeRLPNilAsZero(t) ==
    <<BigEndian(t.nonce), BigEndian(t.price), BigEndian(t.gasLimit),
      IF t.recipient = NilRecipient THEN <<ZeroAddr>> ELSE <<t.recipient>>,
      BigEndian(t.amount), PayloadItem(t.payload),
      BigEndian(t.V), RItem(t.RS), SItem(t.RS)>>

\* The struct TxData as declared: each field's Go type and rlp tag, in the
\* order of declaration.
Field(name, type, tag) == [name |-> name, type |-> type, tag |-> tag]

\* TxData with the tag of Hash forgotten.
TxDataFieldsHashUntagged ==
    <<Field("AccountNonce", "uint64", ""), Field("Price", "*big.Int", ""),
      Field("GasLimit", "uint64", ""), Field("Recipient", "*ethcmn.Address", "nil"),
      Field("Amount", "*big.Int", ""), Field("Payload", "[]byte", ""),
      Field("V", "*big.Int", ""), Field("R", "*big.Int", ""), Field("S", "*big.Int", ""),
      Field("Hash", "*ethcmn.Hash", "")>>

TxDataFields ==
    <<Field("AccountNonce", "uint64", ""), Field("Price", "*big.Int", ""),
      Field("GasLimit", "uint64", ""), Field("Recipient", "*ethcmn.Address", "nil"),
      Field("Amount", "*big.Int", ""), Field("Payload", "[]byte", ""),
      Field("V", "*big.Int", ""), Field("R", "*big.Int", ""), Field("S", "*big.Int", ""),
      Field("Hash", "*ethcmn.Hash", "-")>>

\* The bytes of a field's value: an integer's big-endian bytes, the bytes
\* of an address, of the payload, of a half of the signature.
FieldBytes(t, name) ==
    CASE name = "AccountNonce" -> BigEndian(t.nonce)
      [] name = "Price" -> BigEndian(t.price)
      [] name = "GasLimit" -> BigEndian(t.gasLimit)
      [] name = "Recipient" -> <<t.recipient>>
      [] name = "Amount" -> BigEndian(t.amount)
      [] name = "Payload" -> PayloadItem(t.payload)
      [] name = "V" -> BigEndian(t.V)
      [] name = "R" -> RItem(t.RS)
      [] name = "S" -> SItem(t.RS)

\* The field holds a nil pointer.  Nothing sets Hash.
IsNilField(t, name) ==
    \/ name = "Recipient" /\ t.recipient = NilRecipient
    \/ name = "Hash"

\* rlp leaves out a field tagged rlp:"-".
Encoded(f) == f.tag # "-"

\* EncodeRLP: rlp.Encode of the data: one item for each field of TxData
\* that is not left out, in the order of declaration; a nil pointer to
\* bytes is the empty string.
EncodeRLP(t) ==
    LET fields == SelectSeq(TxDataFields, Encoded)
    IN  [i \in 1..Len(fields) |->
            IF IsNilField(t, fields[i].name) THEN EmptyItem
            ELSE FieldBytes(t, fields[i].name)]

\* s.Decode(&tx.data): rlp refuses a list with another number of items than
\* the struct has encoded fields, an integer with a leading zero, and for a
\* uint64 field a string of more than 8 bytes.  The bytes of r and s are
\* symbolic and have no leading zero.
DecodeRLPFails(w) ==
    LET fields == SelectSeq(TxDataFields, Encoded)
    IN  \/ Len(w) # Len(fields)
        \/ \E i \in 1..Len(fields) :
              /\ fields[i].type \in {"uint64", "*big.Int"}
              /\ fields[i].name \notin {"R", "S"}
              /\ \/ w[i] # <<>> /\ w[i][1] = 0
                 \/ fields[i].type = "uint64" /\ Len(w[i]) > 8

\* DecodeRLP: the empty string at the recipient is a nil pointer.
DecodeRLP(w) ==
    [nonce |-> FromBigEndian(w[1]), price |-> FromBigEndian(w[2]),
     gasLimit |-> FromBigEndian(w[3]),
     recipient |-> IF w[4] = EmptyItem THEN NilRecipient ELSE w[4][1],
     amount |-> FromBigEndian(w[5]),
     payload |-> IF w[6] = EmptyItem THEN EmptyPayload ELSE w[6][1],
     V |-> FromBigEndian(w[7]),
     RS |-> IF w[8] = EmptyItem /\ w[9] = EmptyItem THEN ZeroRS ELSE w[8][1].sig,
     from |-> NoFrom]

\* The foreign chain's transaction (ethtypes.Transaction): the six fields
\* and the signature values.  EthTwin(t) holds t's field values and
\* signature.
EthTransaction(body, V, RS) == [body |-> body, V |-> V, RS |-> RS]
EthTwin(t) == EthTransaction(TxBody(t), t.V, t.RS)

\* rlp.EncodeToBytes(ethTx): the foreign chain's own encoder.  Its field
\* list is fixed by the wire format: nonce, gasPrice, gasLimit, recipient
\* (empty when absent), amount, payload, v, r, s.
EthEncodeRLPFails(e) == e.body.price < 0 \/ e.body.amount < 0 \/ e.V < 0
EthEncodeRLP(e) ==
    <<BigEndian(e.body.nonce), BigEndian(e.body.price), BigEndian(e.body.gasLimit),
      IF e.body.recipient = NilRecipient THEN EmptyItem ELSE <<e.body.recipient>>,
      BigEndian(e.body.amount), PayloadItem(e.body.payload),
      BigEndian(e.V), RItem(e.RS), SItem(e.RS)>>

\* rlpHash drops the error of rlp.Encode, which refuses a negative *big.Int
\* and then writes nothing to the hasher: the hash is that of no bytes,
\* whatever the fields and the chain id.
EmptyHash ==
    [form |-> "empty", chain |-> 0,
     body |-> [nonce |-> 0, price |-> 0, gasLimit |-> 0, recipient |-> ZeroAddr,
               amount |-> 0, payload |-> EmptyPayload]]
rlpHashFails(body, chainID) == body.price < 0 \/ body.amount < 0 \/ chainID < 0

\* rlpHash of the six fields followed by (chainID, 0, 0).
EIP155Hash(body, chainID) ==
    IF rlpHashFails(body, chainID) THEN EmptyHash
    ELSE [form |-> "eip155", chain |-> chainID, body |-> body]
\* rlpHash of the six fields alone (Frontier and Homestead signers).
HomesteadHash(body) ==
    IF rlpHashFails(body, 0) THEN EmptyHash
    ELSE [form |-> "homestead", chain |-> 0, body |-> body]

\* crypto.Sign(h, priv): recid is the recovery id the library reports.
CryptoSign(h, key, recid) == [key |-> key, hash |-> h, recid |-> recid]

\* Sign storing the legacy v whatever the chain id.
SignVLegacy(chainID, recid) == Byte(recid + 27)

\* Sign keeping one byte of v.
SignVTruncated(chainID, recid) ==
    IF Sign0(chainID) THEN Byte(recid + 27)
    ELSE Byte(Byte(recid + 35) + 2 * chainID)

SignV(chainID, recid) ==
    IF Sign0(chainID) THEN Byte(recid + 27)
    ELSE Byte(recid + 35) + 2 * chainID

Sign(t, chainID, key, recid) ==
    LET h == EIP155Hash(TxBody(t), chainID)
    IN  [t EXCEPT !.V = SignV(chainID, recid), !.RS = CryptoSign(h, key, recid)]

\* recoverSig without its EIP-155 branch: v is always taken as legacy.
recoverSigLegacy(Vb, RS, chainID) ==
    [rs |-> RS, v |-> Byte(Uint64(Vb) - 27)]

\* The 65-byte signature: (r, s) and the byte v.
recoverSig(Vb, RS, chainID) ==
    [rs |-> RS,
     v  |-> IF Sign0(chainID) THEN Byte(Uint64(Vb) - 27)
            ELSE Byte(Uint64(Vb - 2 * chainID) - 35)]

\* The tree holds two revisions of the file: types/tx.go and, without Sign
\* and the RLP methods, unnamed/part_002.  They differ in recoverSig alone.
Revisions == {"types/tx.go", "unnamed/part_002"}

\* The caller's Vb once recoverSig has returned.  In types/tx.go Vb is only
\* read and the difference goes to V := new(big.Int).Sub(Vb, chainIDMul); in
\* unnamed/part_002 it is Vb.Sub(Vb, chainIDMul), which writes the
\* difference into Vb itself.
recoverSigVb(Vb, chainID) ==
    IF Sign0(chainID) THEN Vb
    ELSE IF revision = "unnamed/part_002" THEN Vb - 2 * chainID
    ELSE Vb

\* EIP155Signer.SignatureValues as WithSignature applies it.
SignatureValues(chainID, sig) ==
    IF Sign0(chainID) THEN Byte(sig.v + 27)
    ELSE Byte(sig.v + 35) + 2 * chainID

\* big.Int.Sign: -1, 0 or +1.
BigSign(x) == IF x > 0 THEN 1 ELSE IF x = 0 THEN 0 ELSE -1

\* sdk.Error values of Transaction.ValidateBasic; NoError is nil.
CodeInvalidValue == 1
NoError == [code |-> 0, msg |-> ""]
ErrInvalidValue(msg) == [code |-> CodeInvalidValue, msg |-> msg]

\* ValidateBasic refusing only what is negative.
TransactionValidateBasicNonNegative(t) ==
    IF BigSign(t.price) = -1 THEN ErrInvalidValue("price must be positive")
    ELSE IF BigSign(t.amount) = -1 THEN ErrInvalidValue("amount must be positive")
    ELSE NoError

\* Transaction.ValidateBasic.
TransactionValidateBasic(t) ==
    IF BigSign(t.price) # 1 THEN ErrInvalidValue("price must be positive")
    ELSE IF BigSign(t.amount) # 1 THEN ErrInvalidValue("amount must be positive")
    ELSE NoError

\* tx.from.Load(): the cached sender, as the transaction holds it.
FromCache(t) == t.from

\* Transaction.GetSigners: the type assertion .([]byte) on the nil interface
\* that an empty cache gives panics; else the one cached address.
TransactionGetSignersPanics(t) == FromCache(t) = NoFrom
TransactionGetSigners(t) == <<FromCache(t)>>

\* ConvertTx dereferences the recipient before anything else.
ConvertPanics(t) == t.recipient = NilRecipient

ConvertTx(t, chainID) ==
    LET sig == recoverSig(t.V, t.RS, chainID)
    IN  [body |-> TxBody(t), V |-> SignatureValues(chainID, sig), RS |-> sig.rs]

\* The receiver once ConvertTx has returned.  The method has a value
\* receiver, but the copy shares the big.Int behind tx.data.V with the
\* caller; NewTransaction and WithSignature copy what they are given.
ConvertTxReceiver(t, chainID) == [t EXCEPT !.V = recoverSigVb(t.V, chainID)]

\* ethtypes.SignTx(ethTx, NewEIP155Signer(chainID), prv): the signer's hash
\* of the six fields and (chainID, 0, 0), crypto.Sign, then WithSignature.
EthSignTx(body, chainID, key, recid) ==
    LET sig == CryptoSign(EIP155Hash(body, chainID), key, recid)
    IN  EthTransaction(body, SignatureValues(chainID, [rs |-> sig, v |-> recid]), sig)

(***************************************************************************)
(* ethtypes.EIP155Signer.Sender on the converted transaction.              *)
(***************************************************************************)
isProtectedV(V) == IF BitLenLE8(V) THEN Uint64(V) \notin {27, 28} ELSE TRUE

\* deriveChainId(V).Cmp(chainID) == 0.  For V below 35 the uint64
\* subtraction wraps to a value near 2^63, which no chain id here equals.
ChainIdMatches(V, chainID) ==
    LET u == Uint64(V)
    IN  IF u \in {27, 28} THEN chainID = 0
        ELSE IF u < 35 THEN FALSE
        ELSE (u - 35) \div 2 = chainID

\* crypto.Ecrecover: the signer over the signed hash, someone else otherwise.
Ecrecover(hash, RS, v) ==
    IF RS.hash = hash /\ RS.recid = v THEN PrivKeyToAddress(RS.key)
    ELSE GarbageAddr

ValidateSignatureValues(v, RS) == RS # ZeroRS /\ v \in {0, 1}

recoverPlain(hash, RS, Vb) ==
    IF ~BitLenLE8(Vb) THEN [ok |-> FALSE, addr |-> ZeroAddr, err |-> "ErrInvalidSig"]
    ELSE LET v == Byte(Uint64(Vb) - 27)
         IN  IF ~ValidateSignatureValues(v, RS)
             THEN [ok |-> FALSE, addr |-> ZeroAddr, err |-> "ErrInvalidSig"]
             ELSE [ok |-> TRUE, addr |-> Ecrecover(hash, RS, v), err |-> ""]

Sender(chainID, ethTx) ==
    IF ~isProtectedV(ethTx.V)
    THEN recoverPlain(HomesteadHash(ethTx.body), ethTx.RS, ethTx.V)
    ELSE IF ~ChainIdMatches(ethTx.V, chainID)
    THEN [ok |-> FALSE, addr |-> ZeroAddr, err |-> "ErrInvalidChainId"]
    ELSE recoverPlain(EIP155Hash(ethTx.body, chainID), ethTx.RS,
                      ethTx.V - 2 * chainID - 8)

\* ConvertTx(chainID), then the EIP-155 signer's Sender, as EthAnteHandler
\* chains them.
DeriveSender(t, chainID) == Sender(chainID, ConvertTx(t, chainID))

(***************************************************************************)
(* sdk.Msg, types.EmbeddedTx and the payload that carries it.              *)
(*                                                                         *)
(* An sdk.AccAddress is a byte string of any length: `tail` names its last *)
(* 20 bytes and `extra` holds the bytes before them.  A message is what    *)
(* its interface methods return.  A payload is tagged with what it         *)
(* encodes.                                                                *)
(***************************************************************************)
TypeTxEthereum == "Ethereum"

AccAddress(extra, tail) == [extra |-> extra, tail |-> tail]
AccString(a) == <<a.extra, a.tail>>      \* AccAddress.String(): one-to-one
BytesToAddress(a) == a.tail              \* ethcmn.BytesToAddress: crops from the left

Msg(type, signers, basic) == [type |-> type, signers |-> signers, basic |-> basic]
MsgType(m) == m.type

\* A types.Transaction used as a message.  Nothing stores its `from` cache,
\* so GetSigners' tx.from.Load().([]byte) asserts on a nil interface.
TransactionMsg == [type |-> TypeTxEthereum, from |-> NoFrom, basic |-> ""]
GetSignersPanics(m) == "from" \in DOMAIN m /\ m.from = NoFrom

\* msg.GetSigners(); nothing is returned when it panics.
MsgGetSigners(m) == IF GetSignersPanics(m) THEN <<>> ELSE m.signers
MsgValidateBasic(m) == m.basic           \* "" is nil, else the error's code
MsgGetSignBytes(m) == <<"signbytes", m>>

EmbeddedTx(msgs, sigs) == [Messages |-> msgs, Signatures |-> sigs]
GetMsgs(etx) == etx.Messages

MarshalBinary(etx) == [enc |-> "types/EmbeddedTx", val |-> etx]
RawPayload(name) == [enc |-> "raw", val |-> name]

\* GetRequiredSigners: the loops over messages and over each message's
\* signers, flattened into one list that is scanned left to right.
RECURSIVE Flatten(_)
Flatten(ss) == IF ss = <<>> THEN <<>> ELSE Head(ss) \o Flatten(Tail(ss))

RECURSIVE ScanSigners(_, _, _)
ScanSigners(addrs, seen, signers) ==
    IF addrs = <<>> THEN signers
    ELSE LET addr == Head(addrs)
         IN  IF AccString(addr) \notin seen
             THEN ScanSigners(Tail(addrs), seen \cup {AccString(addr)},
                              Append(signers, BytesToAddress(addr)))
             ELSE ScanSigners(Tail(addrs), seen, signers)

\* GetRequiredSigners collecting the signers by a `range` over the map
\* `seen` once the messages are through: in the order the runtime is in.
GetRequiredSignersRangingSeen(etx) ==
    LET s == ScanSigners(Flatten([i \in 1..Len(GetMsgs(etx)) |->
                                     MsgGetSigners(GetMsgs(etx)[i])]), {}, <<>>)
    IN  IF mapSeed = "backward" THEN [i \in 1..Len(s) |-> s[Len(s) + 1 - i]] ELSE s

GetRequiredSigners(etx) ==
    ScanSigners(Flatten([i \in 1..Len(GetMsgs(etx)) |-> MsgGetSigners(GetMsgs(etx)[i])]),
                {}, <<>>)

\* The JSON sign document.
SignBytes(etx, chainID, accnum, sequence) ==
    [ChainID |-> chainID,
     Msgs |-> [i \in 1..Len(GetMsgs(etx)) |-> MsgGetSignBytes(GetMsgs(etx)[i])],
     AccountNumber |-> accnum,
     Sequence |-> sequence]

RECURSIVE ValidateMsgs(_)
ValidateMsgs(msgs) ==
    IF msgs = <<>> THEN ""
    ELSE IF MsgType(Head(msgs)) = TypeTxEthereum THEN "TxDecode"
    ELSE IF MsgValidateBasic(Head(msgs)) # "" THEN MsgValidateBasic(Head(msgs))
    ELSE ValidateMsgs(Tail(msgs))

\* GetRequiredSigners calls GetSigners on every message.
RequiredSignersPanic(etx) ==
    \E i \in 1..Len(GetMsgs(etx)) : GetSignersPanics(GetMsgs(etx)[i])

\* ValidateBasic rejecting only a surplus of signatures.
ValidateBasicSurplusOnly(etx) ==
    IF RequiredSignersPanic(etx) THEN "panic"
    ELSE IF Len(etx.Signatures) > Len(GetRequiredSigners(etx)) THEN "Unauthorized"
    ELSE ValidateMsgs(GetMsgs(etx))

\* ValidateBasic refusing a batch that has no message.
ValidateBasicNoEmpty(etx) ==
    IF RequiredSignersPanic(etx) THEN "panic"
    ELSE IF Len(etx.Signatures) # Len(GetRequiredSigners(etx)) THEN "Unauthorized"
    ELSE IF GetMsgs(etx) = <<>> THEN "UnknownRequest"
    ELSE ValidateMsgs(GetMsgs(etx))

\* EmbeddedTx.ValidateBasic: "" is nil, "panic" when GetRequiredSigners
\* panics, else the error's code.
ValidateBasic(etx) ==
    IF RequiredSignersPanic(etx) THEN "panic"
    ELSE IF Len(etx.Signatures) # Len(GetRequiredSigners(etx)) THEN "Unauthorized"
    ELSE ValidateMsgs(GetMsgs(etx))

\* HasEmbeddedTx reads tx.data.Recipient.Bytes(): a nil recipient is
\* dereferenced.
HasEmbeddedTxPanics(t) == t.recipient = NilRecipient

\* HasEmbeddedTx comparing with the address the handler was created with.
HasEmbeddedTxByArgument(t, reserved) == t.recipient = argSDKAddress

HasEmbeddedTx(t, reserved) == t.recipient = reserved

\* The messages whose Go type the package's codec can decode.  RegisterWire
\* registers the interface sdk.Msg and the type EmbeddedTx, and no type that
\* implements sdk.Msg; the codec is not exported, so none is added later.
RegisterWire == {}

\* codec.UnmarshalBinary into an EmbeddedTx: the bytes are those of an
\* EmbeddedTx and each message is of a registered type.
UnmarshalBinaryOK(payload) ==
    /\ payload.enc = "types/EmbeddedTx"
    /\ \A i \in 1..Len(payload.val.Messages) : payload.val.Messages[i] \in RegisterWire

\* GetEmbeddedTx taking a payload that does not decode for an empty batch.
GetEmbeddedTxLenient(t) ==
    IF UnmarshalBinaryOK(t.payload)
    THEN [err |-> "", etx |-> t.payload.val]
    ELSE [err |-> "", etx |-> EmbeddedTx(<<>>, <<>>)]

\* GetEmbeddedTx: codec.UnmarshalBinary of the payload into an EmbeddedTx.
GetEmbeddedTx(t) ==
    IF UnmarshalBinaryOK(t.payload)
    THEN [err |-> "", etx |-> t.payload.val]
    ELSE [err |-> "TxDecode", etx |-> EmbeddedTx(<<>>, <<>>)]

(***************************************************************************)
(* Signatures of an embedded batch.  crypto.Sign over a sign document.     *)
(***************************************************************************)
\* Bytes that are no signature: fewer than the 65 of one, as the "sig1" of
\* the tests.
Malformed == [malformed |-> TRUE]
\* 65 bytes that are no signature of any key over anything: no point of the
\* curve has their r.
Unrecoverable == [unrecoverable |-> TRUE]
EmbSign(key, doc) == [key |-> key, doc |-> doc]

\* The sign document is JSON, never 32 bytes long.  The cgo binding
\* (libsecp256k1) refuses a message that is not 32 bytes; the pure-Go one
\* (btcec) takes what it is given and keeps the first 32 bytes of it, and
\* before that reads sig[64] without a look at the length of sig.
Builds == {"cgo", "nocgo"}

\* btcec's hashToInt: the first 32 bytes of the message.  The document is
\* {"ChainID":"<id>","Msgs":[<sign bytes>,...],"AccountNumber":"<n>",
\* "Sequence":"<n>"}, with null for no messages: its first 32 bytes hold the
\* chain id (of up to 19 characters) and the opening of the first message's
\* sign bytes, here what the message's type fixes, and nothing of the
\* account number and the sequence.
hashToInt(doc) ==
    [ChainID |-> doc.ChainID,
     Msgs |-> IF doc.Msgs = <<>> THEN "null" ELSE MsgType(doc.Msgs[1][2])]

\* What a call of SigToPub gives: a panic raised inside it, or (pk, err).
Recovery(panic, err, addr) == [panic |-> panic, err |-> err, addr |-> addr]

\* ethcrypto.SigToPub: (pk, err), pk nil when err is not.  On the pure-Go
\* build a signature of fewer than 65 bytes ends it in an index panic, and
\* one of 65 bytes from which no key can be recovered gives (nil, err).
SigToPub(lib, signBytes, sig) ==
    IF lib = "cgo" THEN Recovery("", TRUE, ZeroAddr)
    ELSE IF sig = Malformed THEN Recovery("index out of range", FALSE, ZeroAddr)
    ELSE IF sig = Unrecoverable THEN Recovery("", TRUE, ZeroAddr)
    ELSE IF hashToInt(sig.doc) = hashToInt(signBytes)
    THEN Recovery("", FALSE, PrivKeyToAddress(sig.key))
    ELSE Recovery("", FALSE, GarbageAddr)

(***************************************************************************)
(* The execution context of one handler call: the account store, the gas   *)
(* meter (every store access is metered) and the log of what was done.     *)
(***************************************************************************)
StoreGas == 1        \* gas one store access consumes

\* int64(uint64 u): from the top bit on, the value wraps to a negative one.
Int64(u) == IF u >= 2 ^ (GasBits - 1) THEN u - 2 ^ GasBits ELSE u
NewGasMeter(st, limit) == [st EXCEPT !.limit = limit, !.consumed = 0, !.metered = TRUE]
ConsumeGas(st, amount) == [st EXCEPT !.consumed = @ + amount]
OutOfGas(st) == st.metered /\ st.consumed > st.limit
Log(st, e) == [st EXCEPT !.events = Append(@, e)]

NewContext(store) ==
    [store |-> store, limit |-> 0, consumed |-> 0, metered |-> FALSE, events |-> <<>>]

\* What a call ends with: a normal return (ctx, res, abort) or a panic.
Return(st, code, abort) ==
    [kind |-> "return", abort |-> abort, code |-> code, panic |-> "",
     store |-> st.store, events |-> st.events, metered |-> st.metered,
     limit |-> st.limit, consumed |-> st.consumed, gasWanted |-> 0, gasUsed |-> 0]
Panic(st, value) ==
    [kind |-> "panic", abort |-> FALSE, code |-> "", panic |-> value,
     store |-> st.store, events |-> st.events, metered |-> st.metered,
     limit |-> st.limit, consumed |-> st.consumed, gasWanted |-> 0, gasUsed |-> 0]
IsOK(o) == o.code = "OK"

\* validateSigner without the comparison to the expected signer.
validateSignerAnyKey(lib, signBytes, sig, signer) ==
    LET r == SigToPub(lib, signBytes, sig)
    IN  IF r.panic # "" THEN [panic |-> r.panic, err |-> ""]
        ELSE IF r.err THEN [panic |-> "nil pointer dereference", err |-> ""]
        ELSE [panic |-> "", err |-> ""]

\* validateSigner: the panic it ends in, SigToPub's own or that of *pk on
\* the nil key, or the error it returns; "" is none and nil.
validateSigner(lib, signBytes, sig, signer) ==
    LET r == SigToPub(lib, signBytes, sig)
    IN  IF r.panic # "" THEN [panic |-> r.panic, err |-> ""]
        ELSE IF r.err THEN [panic |-> "nil pointer dereference", err |-> ""]
        ELSE IF r.addr # signer
        THEN [panic |-> "", err |-> "signature verification failed"]
        ELSE [panic |-> "", err |-> ""]

\* incrSequenceNumber adding 2.
incrSequenceNumberBy2(st, addr) ==
    Log([st EXCEPT !.store[addr] = @ + 2],
        [op |-> "SetAccount", addr |-> addr, seq |-> st.store[addr] + 2])

\* incrSequenceNumber after its two metered store accesses.
incrSequenceNumber(st, addr) ==
    Log([st EXCEPT !.store[addr] = @ + 1],
        [op |-> "SetAccount", addr |-> addr, seq |-> st.store[addr] + 1])

\* GetSequence giving sequence 0 for an address without account.
GetSequenceDefaultZero(store, addr) ==
    IF store[addr] = NoAccount THEN [err |-> "", seq |-> 0]
    ELSE [err |-> "", seq |-> store[addr]]

\* auth.AccountMapper.GetSequence: the stored sequence, or the error for an
\* address that has no account.
GetSequence(store, addr) ==
    IF store[addr] = NoAccount THEN [err |-> "UnknownAddress", seq |-> 0]
    ELSE [err |-> "", seq |-> store[addr]]

\* The body of embeddedAnteHandler's loop from signature i on.
RECURSIVE validateSignatures(_, _, _, _, _, _)
validateSignatures(lib, st, chainID, etx, signerAddrs, i) ==
    IF i > Len(etx.Signatures) THEN Return(st, "OK", FALSE)
    ELSE
    LET signer == signerAddrs[i]
        sig    == etx.Signatures[i]
        s1     == ConsumeGas(st, StoreGas)           \* am.GetSequence
    IN  IF OutOfGas(s1) THEN Panic(s1, "ErrorOutOfGas")
        ELSE IF GetSequence(s1.store, signer).err # ""
        THEN Return(Log(s1, [op |-> "GetSequence", addr |-> signer, seq |-> NoAccount]),
                    GetSequence(s1.store, signer).err, TRUE)
        ELSE
        LET seq       == GetSequence(s1.store, signer).seq
            s2        == Log(s1, [op |-> "GetSequence", addr |-> signer, seq |-> seq])
            signBytes == SignBytes(etx, chainID, 0, seq)
            verdict   == validateSigner(lib, signBytes, sig, signer)
        IN  IF verdict.panic # "" THEN Panic(s2, verdict.panic)
            ELSE IF verdict.err # ""
            THEN Return(Log(s2, [op |-> "verify", addr |-> signer, seq |-> seq, ok |-> FALSE]),
                        "Unauthorized", TRUE)
            ELSE
            LET s3 == Log(s2, [op |-> "verify", addr |-> signer, seq |-> seq, ok |-> TRUE])
                s4 == ConsumeGas(s3, StoreGas)       \* am.GetAccount
                s5 == ConsumeGas(s4, StoreGas)       \* am.SetAccount
            IN  IF OutOfGas(s4) THEN Panic(s4, "ErrorOutOfGas")
                ELSE IF OutOfGas(s5) THEN Panic(s5, "ErrorOutOfGas")
                ELSE validateSignatures(lib, incrSequenceNumber(s5, signer),
                                        chainID, etx, signerAddrs, i + 1)

\* embeddedAnteHandler checking the signatures before the messages.
embeddedAnteHandlerSignaturesFirst(lib, st, chainID, etx) ==
    IF ValidateBasic(etx) = "panic" THEN Panic(st, "interface conversion")
    ELSE IF Len(etx.Signatures) # Len(GetRequiredSigners(etx))
    THEN Return(st, "Unauthorized", TRUE)
    ELSE LET r == validateSignatures(lib, st, chainID, etx, GetRequiredSigners(etx), 1)
         IN  IF r.kind = "return" /\ ~r.abort /\ ValidateBasic(etx) # ""
             THEN [r EXCEPT !.code = ValidateBasic(etx), !.abort = TRUE]
             ELSE r

\* embeddedAnteHandler returning abort = false with ValidateBasic's error.
embeddedAnteHandlerNoAbort(lib, st, chainID, etx) ==
    IF ValidateBasic(etx) = "panic" THEN Panic(st, "interface conversion")
    ELSE IF ValidateBasic(etx) # "" THEN Return(st, ValidateBasic(etx), FALSE)
    ELSE validateSignatures(lib, st, chainID, etx, GetRequiredSigners(etx), 1)

\* embeddedAnteHandler(ctx, tx, am): ctx brings the store and the gas meter.
embeddedAnteHandler(lib, st, chainID, etx) ==
    IF ValidateBasic(etx) = "panic" THEN Panic(st, "interface conversion")
    ELSE IF ValidateBasic(etx) # "" THEN Return(st, ValidateBasic(etx), TRUE)
    ELSE validateSignatures(lib, st, chainID, etx, GetRequiredSigners(etx), 1)

\* A deferred recover that converts every panic.
RecoverAll(o, gasLimit) ==
    IF o.kind = "panic"
    THEN [o EXCEPT !.kind = "return", !.abort = TRUE, !.code = "OutOfGas",
                   !.panic = "", !.gasWanted = Int64(gasLimit), !.gasUsed = o.consumed]
    ELSE o

\* The deferred recover of EthAnteHandler.
Recover(o, gasLimit) ==
    IF o.kind = "panic" /\ o.panic = "ErrorOutOfGas"
    THEN [o EXCEPT !.kind = "return", !.abort = TRUE, !.code = "OutOfGas",
                   !.panic = "", !.gasWanted = Int64(gasLimit), !.gasUsed = o.consumed]
    ELSE o

\* EthAnteHandler(config, sdkAddress, accountMapper)(ctx, tx).  goType is
\* the dynamic type of the sdk.Tx handed in; reserved is types.sdkAddress.
EthAnteHandler(lib, store, chainID, goType, t, reserved) ==
    LET ctx    == NewContext(store)
        newCtx == NewGasMeter(ctx, Int64(t.gasLimit))
    IN  IF goType # "types.Transaction" THEN Return(ctx, "Internal", TRUE)
        ELSE Recover(
            IF ~SetStringOK(chainID) THEN Return(newCtx, "Internal", TRUE)
            ELSE IF ConvertPanics(t) THEN Panic(newCtx, "nil pointer dereference")
            ELSE IF ~DeriveSender(t, SetStringValue(chainID)).ok
            THEN Return(newCtx, "Unauthorized", TRUE)
            ELSE IF HasEmbeddedTx(t, reserved)
            THEN IF GetEmbeddedTx(t).err # ""
                 THEN Return(newCtx, GetEmbeddedTx(t).err, TRUE)
                 ELSE embeddedAnteHandler(lib, newCtx, chainID, GetEmbeddedTx(t).etx)
            ELSE Return(newCtx, "OK", FALSE),
            t.gasLimit)

\* The transaction the caller holds once the handler has returned: the
\* handler works on the copy the type assertion gives it, and ConvertTx is
\* the one step that reaches memory shared with the caller's.
TxAfterHandler(sub) ==
    IF sub.goType # "types.Transaction" \/ ~SetStringOK(sub.chainID) \/ ConvertPanics(sub.tx)
    THEN sub.tx
    ELSE ConvertTxReceiver(sub.tx, SetStringValue(sub.chainID))

(***************************************************************************)
(* db.AccountMapper over the account store.  The store holds the encoded   *)
(* account under the address: here the sequence, NoAccount for no bytes.   *)
(***************************************************************************)
Account(addr, nonce) == [Address |-> addr, AccountNonce |-> nonce]

\* SetAccount: the account is written under its own address.
AccountMapperSetAccount(store, acc) == [store EXCEPT ![acc.Address] = acc.AccountNonce]

\* GetAccount: the zero Account when nothing is stored.
AccountMapperGetAccount(store, addr) ==
    IF store[addr] = NoAccount THEN Account(ZeroAddr, 0)
    ELSE Account(addr, store[addr])

\* NewAccount writing the fresh account over an existing one.
AccountMapperNewAccountReset(store, addr) ==
    [err |-> IF store[addr] # NoAccount THEN "Unauthorized" ELSE "",
     store |-> [store EXCEPT ![addr] = 0]]

\* NewAccount: (error, store after); "" is nil.
AccountMapperNewAccount(store, addr) ==
    IF store[addr] # NoAccount THEN [err |-> "Unauthorized", store |-> store]
    ELSE [err |-> "", store |-> AccountMapperSetAccount(store, Account(addr, 0))]

\* GetSequence: (sequence, error).  Stored bytes give the invalid-address
\* error; no bytes go on to UnmarshalBinary, which refuses empty input.
AccountMapperGetSequence(store, addr) ==
    IF store[addr] # NoAccount THEN [seq |-> 0, err |-> "InvalidAddress"]
    ELSE [seq |-> 0, err |-> "Internal"]

(***************************************************************************)
(* Inputs of the model.                                                    *)
(***************************************************************************)
Addrs == {PrivKeyToAddress(k) : k \in Keys}
SDKAddrs == {"R"}                      \* arguments given to SetSDKAddress
GoTypes == {"types.Transaction", "*types.Transaction"}

AccA == AccAddress(<<>>, "A")
AccB == AccAddress(<<>>, "B")
AccC == AccAddress(<<>>, "C")
AccA21 == AccAddress(<<0>>, "A")       \* 21 bytes ending in A's 20

SignerLists == {<<AccA>>, <<AccA, AccB>>, <<AccA21>>}
MsgPool ==
    {Msg("bank", s, "") : s \in SignerLists}
        \cup {Msg(TypeTxEthereum, <<AccA>>, ""), Msg("bank", <<AccA>>, "UnknownRequest"),
              TransactionMsg}
MsgSeqs == SeqsUpTo(MsgPool, MaxMsgs)

EmbChainID == Decimal(1)               \* the chain id embedded signers sign for

\* The signatures offered for position i of a batch: the required signer's
\* over a sequence below MaxSeq, another key's, or bytes that are no
\* signature, too few or of the right length.
SigPool(msgs, signer) ==
    {Malformed, Unrecoverable}
        \cup {EmbSign(signer, SignBytes(EmbeddedTx(msgs, <<>>), EmbChainID, 0, q)) :
                q \in 0..(MaxSeq - 1)}
        \cup {EmbSign(k, SignBytes(EmbeddedTx(msgs, <<>>), EmbChainID, 0, 0)) :
                k \in Keys \ {signer}}

RECURSIVE SigLists(_, _)
SigLists(msgs, signers) ==
    IF signers = <<>> THEN {<<>>}
    ELSE {<<g>> \o rest : g \in SigPool(msgs, Head(signers)),
                          rest \in SigLists(msgs, Tail(signers))}

\* Batches: one signature per required signer, or one too few or too many.
BatchesOf(msgs) ==
    LET signers == GetRequiredSigners(EmbeddedTx(msgs, <<>>))
        n       == Len(signers)
    IN  {EmbeddedTx(msgs, g) : g \in SigLists(msgs, signers)}
            \cup {EmbeddedTx(msgs, [i \in 1..(n + 1) |-> Malformed])}
            \cup {EmbeddedTx(msgs, [i \in 1..(n - 1) |-> Malformed]) : x \in {y \in {n} : y > 0}}
Batches == UNION {BatchesOf(msgs) : msgs \in MsgSeqs}

CtxChainIDs == {Decimal(1), Decimal(2)}
BadChainIDs == {<<"x">>, <<>>, <<"-">>, <<"1", "x">>}

OuterKey == "A"
SignedFor(t, c) == Sign(t, c, OuterKey, 0)

\* A transaction as it comes off the wire with no recipient.
WireNoRecipient(nonce, amount, gasLimit, gasPrice, data) ==
    <<BigEndian(nonce), BigEndian(gasPrice), BigEndian(gasLimit), EmptyItem,
      BigEndian(amount), PayloadItem(data), EmptyItem, EmptyItem, EmptyItem>>

\* A submission: the context's chain id, the Go type handed in, the transaction.
Submission(chainID, goType, t) == [chainID |-> chainID, goType |-> goType, tx |-> t]

\* Transactions that meet the outer checks in every way: any chain id string,
\* unsigned or signed for chain 1 or 2, any recipient or none, junk or an
\* empty batch.
OuterSubs ==
    {Submission(c, g, t) :
        c \in CtxChainIDs \cup BadChainIDs, g \in GoTypes,
        t \in UNION {
            LET u == NewTransaction(0, to, 1, MaxGas, 3, data)
                w == DecodeRLP(WireNoRecipient(0, 1, MaxGas, 3, data))
            IN  {u, SignedFor(u, 1), SignedFor(u, 2), w, SignedFor(w, 1)} :
            to \in Recipients,
            data \in {RawPayload("junk"), MarshalBinary(EmbeddedTx(<<>>, <<>>))}}}

\* A carrier of batch b: signed for the context, sent to the reserved address.
Carrier(c, gas, b, reserved) ==
    Submission(c, "types.Transaction",
               SignedFor(NewTransaction(0, reserved, 1, gas, 3, MarshalBinary(b)),
                         SetStringValue(c)))

\* Gas limits with the top bit set: the least and the greatest.
HugeGas == {2 ^ (GasBits - 1), 2 ^ GasBits - 1}

\* Carriers under each context chain id, with gas limits of both halves of
\* the range: of each batch that has no message or one.
EmbSubs(reserved) ==
    {Carrier(c, gas, b, reserved) :
        c \in CtxChainIDs, gas \in {0, MaxGas} \cup HugeGas,
        b \in BatchesOf(<<>>) \cup UNION {BatchesOf(<<m>>) : m \in MsgPool}}

\* Calls of embeddedAnteHandler: every batch under each context chain id
\* with gas for two signers, and the batches of one message under the chain
\* id their signers signed for with every limit of the meter.
EmbCalls ==
    {<<c, MaxGas, b>> : c \in CtxChainIDs, b \in Batches}
        \cup {<<EmbChainID, gas, b>> :
                gas \in 0..MaxGas, b \in UNION {BatchesOf(<<m>>) : m \in MsgPool}}

(***************************************************************************)
(* The state machine.                                                      *)
(***************************************************************************)
NoTx == NewTransaction(0, ZeroAddr, 0, 0, 0, RawPayload(""))
NoCall ==
    [kind |-> "none", abort |-> FALSE, code |-> "", panic |-> "",
     store |-> [a \in Addrs |-> NoAccount], events |-> <<>>, metered |-> FALSE,
     limit |-> 0, consumed |-> 0, gasWanted |-> 0, gasUsed |-> 0,
     pre |-> [a \in Addrs |-> NoAccount], goType |-> "", reserved |-> ZeroAddr,
     replay |-> FALSE, entry |-> "", embedded |-> FALSE, etx |-> EmbeddedTx(<<>>, <<>>),
     seed |-> "forward"]

NoRet == [op |-> "none", addr |-> ZeroAddr, seq |-> 0, err |-> "",
          pre |-> [a \in Addrs |-> NoAccount]]

NoMethod == [op |-> "none"]

Goroutines == 1..MaxGoroutines
NoHolder == 0
NotCalling == [pc |-> "idle", arg |-> ZeroAddr]
NoHistory == [first |-> <<>>, ran |-> <<>>, returned |-> FALSE, seen |-> {}]
NoRun == [kind |-> "none"]

InitState ==
    /\ build \in Builds
    /\ sdkAddress = ZeroAddr
    /\ sdkAddressOnce = FALSE
    /\ accounts = [a \in Addrs |-> NoAccount]
    /\ tx = NoTx
    /\ ctxChainID = <<>>
    /\ out = NoCall
    /\ accepted = {}
    /\ reqIn = <<>>
    /\ reqOut = <<>>
    /\ ret = NoRet
    /\ call = NoMethod
    /\ onceM = NoHolder
    /\ gor = [g \in Goroutines |-> NotCalling]
    /\ hist = NoHistory
    /\ argSDKAddress = ZeroAddr
    /\ prevRun = NoRun
    /\ mapSeed = "forward"

\* The program as built from the tree's types/tx.go.
Init == InitState /\ revision = "types/tx.go"

Idle == out.kind = "none"         \* no call is in flight or awaiting its caller

\* sdkAddressOnce.Do(func() { sdkAddress = addr })
SetSDKAddress(addr) ==
    /\ Idle
    /\ sdkAddress' = IF sdkAddressOnce THEN sdkAddress ELSE addr
    /\ sdkAddressOnce' = TRUE
    /\ UNCHANGED <<build, revision, mapSeed, accounts, tx, ctxChainID, out, accepted, reqIn, reqOut, ret,
                   call, onceM, gor, hist,
                   argSDKAddress, prevRun>>

\* The application gives an address that has no account one at sequence 0,
\* in the store of the auth.AccountMapper the handler is made with:
\* am.SetAccount(ctx, acc) with a new account for addr.
SetAccount(addr) ==
    /\ Idle
    /\ accounts[addr] = NoAccount
    /\ accounts' = [accounts EXCEPT ![addr] = 0]
    /\ UNCHANGED <<build, revision, mapSeed, sdkAddress, sdkAddressOnce, tx, ctxChainID, out, accepted,
                   reqIn, reqOut, ret, call,
                   onceM, gor, hist,
                   argSDKAddress, prevRun>>

\* sub reaches embedded validation: it carries a batch past the outer checks.
IsCarrier(sub, reserved) ==
    /\ sub.goType = "types.Transaction"
    /\ SetStringOK(sub.chainID)
    /\ ~ConvertPanics(sub.tx)
    /\ DeriveSender(sub.tx, SetStringValue(sub.chainID)).ok
    /\ HasEmbeddedTx(sub.tx, reserved)
    /\ GetEmbeddedTx(sub.tx).err = ""

\* What a replay repeats: the batch with its signatures, and the chain id.
BatchKey(etx, chainID) == [batch |-> etx, chainID |-> chainID]

\* What is kept of a call besides its outcome: the store it started from,
\* the reserved address, the function entered, whether embedded validation
\* ran and on which batch, whether that batch was accepted before, and the
\* map iteration order the runtime was in.
Started(entry, goType, embedded, etx, chainID) ==
    [pre |-> accounts, goType |-> goType, reserved |-> sdkAddress,
     entry |-> entry, embedded |-> embedded, etx |-> etx,
     replay |-> embedded /\ BatchKey(etx, chainID) \in accepted,
     seed |-> mapSeed]

\* The outcome of handling sub in the current state, with what it started from.
Handle(sub) ==
    Started("EthAnteHandler", sub.goType, IsCarrier(sub, sdkAddress),
            GetEmbeddedTx(sub.tx).etx, sub.chainID)
        @@ EthAnteHandler(build, accounts, sub.chainID, sub.goType, sub.tx, sdkAddress)

\* A call of embeddedAnteHandler itself: the batch is handed over as a value,
\* under a context with the chain id, the store and a meter of the caller's.
\* Nothing recovers a panic here.
HandleEmbedded(chainID, limit, etx) ==
    Started("embeddedAnteHandler", "", TRUE, etx, chainID)
        @@ embeddedAnteHandler(build, NewGasMeter(NewContext(accounts), limit), chainID, etx)

\* Embedded validation accepted a batch.
AcceptedCarrier(o) == o.kind = "return" /\ ~o.abort /\ o.embedded

\* An embedded batch with a required signer was accepted.
AcceptedBatch(o) == AcceptedCarrier(o) /\ GetRequiredSigners(o.etx) # <<>>

\* One call of the ante handler; what it wrote to the store is kept.
Call(sub) ==
    /\ Idle
    /\ tx' = TxAfterHandler(sub)
    /\ ctxChainID' = sub.chainID
    /\ out' = Handle(sub)
    /\ accounts' = out'.store
    /\ UNCHANGED <<build, revision, mapSeed, sdkAddress, sdkAddressOnce, reqIn, reqOut, ret, call,
                   onceM, gor, hist,
                   argSDKAddress, prevRun>>

AnteHandler(sub) == Call(sub) /\ UNCHANGED accepted

\* One call of embeddedAnteHandler; what it wrote to the store is kept.
\* Calls that take a sequence past MaxSeq are left out.
CallEmbedded(chainID, limit, etx) ==
    /\ Idle
    /\ tx' = NoTx
    /\ ctxChainID' = chainID
    /\ out' = HandleEmbedded(chainID, limit, etx)
    /\ \A a \in Addrs : out'.store[a] <= MaxSeq
    /\ accounts' = out'.store
    /\ UNCHANGED <<build, revision, mapSeed, sdkAddress, sdkAddressOnce, reqIn, reqOut, ret, call,
                   onceM, gor, hist,
                   argSDKAddress, prevRun>>

EmbeddedAnteHandler(c) == CallEmbedded(c[1], c[2], c[3]) /\ UNCHANGED accepted

\* The caller takes the outcome; the transaction is not retained.
Discard ==
    /\ ~Idle
    /\ tx' = NoTx
    /\ ctxChainID' = <<>>
    /\ out' = NoCall
    /\ UNCHANGED <<build, revision, mapSeed, sdkAddress, sdkAddressOnce, accounts, accepted, reqIn, reqOut,
                   ret, call, onceM, gor, hist,
                   argSDKAddress, prevRun>>

Next ==
    \/ \E addr \in SDKAddrs : SetSDKAddress(addr)
    \/ \E addr \in Addrs : SetAccount(addr)
    \/ Idle /\ \E sub \in OuterSubs : AnteHandler(sub)
    \/ Idle /\ sdkAddressOnce /\ \E sub \in EmbSubs(sdkAddress) : AnteHandler(sub)
    \/ Idle /\ \E c \in EmbCalls : EmbeddedAnteHandler(c)
    \/ Discard

Spec == Init /\ [][Next]_vars

(***************************************************************************)
(* The outer signature alone: a transaction is built, perhaps signed, and  *)
(* submitted under a context chain id.                                     *)
(***************************************************************************)
MaxNegChainId == 8   \* negative chain ids -1..-MaxNegChainId, signed for and in contexts

ChainIds == 0..MaxChainId
SignChainIds == ChainIds \cup {0 - c : c \in 1..MaxNegChainId}
SigCtxChainIDs ==
    {Decimal(c) : c \in ChainIds}
        \cup {<<"-">> \o Decimal(c) : c \in 1..MaxNegChainId}
        \cup {<<"+">> \o Decimal(1)}
        \cup BadChainIDs

\* Unsigned transactions: two choices of the free fields to a plain address,
\* one to the reserved address (all zero while SetSDKAddress has not run),
\* and one off the wire with no recipient.
SigBodies ==
    {NewTransaction(0, "P", 1, MaxGas, 3, RawPayload("junk")),
     NewTransaction(1, "P", 0, 0, 0, MarshalBinary(EmbeddedTx(<<>>, <<>>))),
     NewTransaction(0, ZeroAddr, 1, MaxGas, 3, MarshalBinary(EmbeddedTx(<<>>, <<>>))),
     DecodeRLP(WireNoRecipient(0, 1, MaxGas, 3, RawPayload("junk")))}

Unsigned(t) == t.V = 0 /\ t.RS = ZeroRS

BuildTx(t) ==
    /\ Idle /\ tx = NoTx
    /\ tx' = t
    /\ UNCHANGED <<build, revision, mapSeed, sdkAddress, sdkAddressOnce, accounts, ctxChainID, out,
                   accepted, reqIn, reqOut, ret, call,
                   onceM, gor, hist,
                   argSDKAddress, prevRun>>

\* tx.Sign(chainID, priv); recid is the recovery id crypto.Sign comes back with.
SignTx(chainID, key, recid) ==
    /\ Idle /\ tx # NoTx /\ Unsigned(tx)
    /\ tx' = Sign(tx, chainID, key, recid)
    /\ UNCHANGED <<build, revision, mapSeed, sdkAddress, sdkAddressOnce, accounts, ctxChainID, out,
                   accepted, reqIn, reqOut, ret, call,
                   onceM, gor, hist,
                   argSDKAddress, prevRun>>

\* The transaction in hand goes through the ante handler.
Submit(chainID) ==
    /\ tx # NoTx
    /\ Call(Submission(chainID, "types.Transaction", tx))
    /\ UNCHANGED accepted

NextSig ==
    \/ Idle /\ tx = NoTx /\ \E t \in SigBodies : BuildTx(t)
    \/ \E c \in ChainIds, key \in Keys, recid \in {0, 1} : SignTx(c, key, recid)
    \/ Idle /\ \E c \in SigCtxChainIDs : Submit(c)
    \/ Discard

SpecSig == Init /\ [][NextSig]_vars

\* The same, with Sign called for a negative chain id as well.
NextSigAny ==
    \/ Idle /\ tx = NoTx /\ \E t \in SigBodies : BuildTx(t)
    \/ \E c \in SignChainIds, key \in Keys, recid \in {0, 1} : SignTx(c, key, recid)
    \/ Idle /\ \E c \in SigCtxChainIDs : Submit(c)
    \/ Discard

SpecSigAny == Init /\ [][NextSigAny]_vars

(***************************************************************************)
(* GetRequiredSigners alone, on messages that declare up to MaxSigners     *)
(* signers each.                                                           *)
(***************************************************************************)
DeclaredLists == SeqsUpTo({AccA, AccB, AccC, AccA21}, MaxSigners)
DeclaringMsgs == {Msg("bank", s, "") : s \in DeclaredLists}

RequiredSigners(msgs) ==
    /\ reqIn' = msgs
    /\ reqOut' = GetRequiredSigners(EmbeddedTx(msgs, <<>>))
    /\ UNCHANGED <<build, revision, mapSeed, sdkAddress, sdkAddressOnce, accounts, tx, ctxChainID, out,
                   accepted, ret, call,
                   onceM, gor, hist,
                   argSDKAddress, prevRun>>

NextSigners == \E msgs \in SeqsUpTo(DeclaringMsgs, MaxMsgs) : RequiredSigners(msgs)

SpecSigners == Init /\ [][NextSigners]_vars

(***************************************************************************)
(* db.AccountMapper alone: its methods are called in any order, and the    *)
(* last call is kept with the store it started from and what it returned.  *)
(***************************************************************************)
Called(op, addr, seq, err) ==
    [op |-> op, addr |-> addr, seq |-> seq, err |-> err, pre |-> accounts]

NewAccountCall(addr) ==
    /\ accounts' = AccountMapperNewAccount(accounts, addr).store
    /\ ret' = Called("NewAccount", addr, 0, AccountMapperNewAccount(accounts, addr).err)
    /\ UNCHANGED <<build, revision, mapSeed, sdkAddress, sdkAddressOnce, tx, ctxChainID, out, accepted,
                   reqIn, reqOut, call,
                   onceM, gor, hist,
                   argSDKAddress, prevRun>>

SetAccountCall(acc) ==
    /\ accounts' = AccountMapperSetAccount(accounts, acc)
    /\ ret' = Called("SetAccount", acc.Address, acc.AccountNonce, "")
    /\ UNCHANGED <<build, revision, mapSeed, sdkAddress, sdkAddressOnce, tx, ctxChainID, out, accepted,
                   reqIn, reqOut, call,
                   onceM, gor, hist,
                   argSDKAddress, prevRun>>

GetAccountCall(addr) ==
    /\ ret' = Called("GetAccount", AccountMapperGetAccount(accounts, addr).Address,
                     AccountMapperGetAccount(accounts, addr).AccountNonce, "")
    /\ UNCHANGED <<build, revision, mapSeed, sdkAddress, sdkAddressOnce, accounts, tx, ctxChainID, out,
                   accepted, reqIn, reqOut, call,
                   onceM, gor, hist,
                   argSDKAddress, prevRun>>

GetSequenceCall(addr) ==
    /\ ret' = Called("GetSequence", addr, AccountMapperGetSequence(accounts, addr).seq,
                     AccountMapperGetSequence(accounts, addr).err)
    /\ UNCHANGED <<build, revision, mapSeed, sdkAddress, sdkAddressOnce, accounts, tx, ctxChainID, out,
                   accepted, reqIn, reqOut, call,
                   onceM, gor, hist,
                   argSDKAddress, prevRun>>

NextStore ==
    \/ \E addr \in Addrs : NewAccountCall(addr)
    \/ \E addr \in Addrs, nonce \in 0..MaxSeq : SetAccountCall(Account(addr, nonce))
    \/ \E addr \in Addrs : GetAccountCall(addr)
    \/ \E addr \in Addrs : GetSequenceCall(addr)

SpecStore == Init /\ [][NextStore]_vars

(***************************************************************************)
(* The methods of types.Transaction alone: a transaction is built or       *)
(* decoded, perhaps signed, and a method is called on it.  The last call   *)
(* is kept with its receiver, the reserved address it ran under, how it    *)
(* ended and what it returned.                                             *)
(***************************************************************************)
TxValues == {-1, 0, 256}               \* prices and amounts
TxMeters == {<<0, 0>>, <<257, MaxGas>>}  \* nonce and gas limit
TxChainIds == {0, 1, 110, 130}
TxPayloads == {RawPayload("junk"), MarshalBinary(EmbeddedTx(<<>>, <<>>))}
TxBatches == BatchesOf(<<>>) \cup UNION {BatchesOf(<<m>>) : m \in MsgPool}

\* Wires rlp refuses: a nonce and a gas limit of 9 bytes, past a uint64; a
\* nonce with a leading zero; a list of eight items.
WiresRefused ==
    LET w == WireNoRecipient(0, 1, MaxGas, 3, RawPayload("junk"))
    IN  {[w EXCEPT ![1] = <<1, 0, 0, 0, 0, 0, 0, 0, 0>>],
         [w EXCEPT ![3] = <<1, 0, 0, 0, 0, 0, 0, 0, 5>>],
         [w EXCEPT ![1] = <<0, 1>>],
         SubSeq(w, 1, 8)}

\* What comes off the wire: transactions with no recipient, and the wires
\* rlp refuses.
Wires ==
    {WireNoRecipient(m[1], amount, m[2], price, data) :
        m \in TxMeters, amount \in TxValues \ {-1},
        price \in TxValues \ {-1}, data \in TxPayloads}
    \cup WiresRefused

\* Built by NewTransaction with every choice of the fields; off the wire,
\* where DecodeRLP returns no error; and carrying each batch.
TxInputs ==
    {NewTransaction(m[1], to, amount, m[2], price, data) :
        m \in TxMeters, to \in Recipients, amount \in TxValues,
        price \in TxValues, data \in TxPayloads}
    \cup {DecodeRLP(w) : w \in {x \in Wires : ~DecodeRLPFails(x)}}
    \cup {NewTransaction(0, to, 1, MaxGas, 3, MarshalBinary(b)) :
            to \in Recipients, b \in TxBatches}

Method(op, kind, result) ==
    [op |-> op, tx |-> tx, reserved |-> sdkAddress, kind |-> kind, result |-> result]

NewTx(t) ==
    /\ tx = NoTx
    /\ tx' = t
    /\ call' = NoMethod
    /\ UNCHANGED <<build, revision, mapSeed, sdkAddress, sdkAddressOnce, accounts, ctxChainID, out,
                   accepted, reqIn, reqOut, ret,
                   onceM, gor, hist,
                   argSDKAddress, prevRun>>

\* tx.Sign(chainID, priv) on a transaction that carries no signature yet.
SignCall(chainID, key, recid) ==
    /\ tx # NoTx /\ Unsigned(tx)
    /\ tx' = Sign(tx, chainID, key, recid)
    /\ call' = NoMethod
    /\ UNCHANGED <<build, revision, mapSeed, sdkAddress, sdkAddressOnce, accounts, ctxChainID, out,
                   accepted, reqIn, reqOut, ret,
                   onceM, gor, hist,
                   argSDKAddress, prevRun>>

\* The transaction is let go of.
DropTx ==
    /\ tx # NoTx
    /\ tx' = NoTx
    /\ call' = NoMethod
    /\ UNCHANGED <<build, revision, mapSeed, sdkAddress, sdkAddressOnce, accounts, ctxChainID, out,
                   accepted, reqIn, reqOut, ret, onceM, gor, hist,
                   argSDKAddress, prevRun>>

HasEmbeddedTxCall ==
    /\ tx # NoTx
    /\ call' = IF HasEmbeddedTxPanics(tx)
               THEN Method("HasEmbeddedTx", "panic", "nil pointer dereference")
               ELSE Method("HasEmbeddedTx", "return", HasEmbeddedTx(tx, sdkAddress))
    /\ UNCHANGED <<build, revision, mapSeed, sdkAddress, sdkAddressOnce, accounts, tx, ctxChainID, out,
                   accepted, reqIn, reqOut, ret,
                   onceM, gor, hist,
                   argSDKAddress, prevRun>>

ValidateBasicCall ==
    /\ tx # NoTx
    /\ call' = Method("ValidateBasic", "return", TransactionValidateBasic(tx))
    /\ UNCHANGED <<build, revision, mapSeed, sdkAddress, sdkAddressOnce, accounts, tx, ctxChainID, out,
                   accepted, reqIn, reqOut, ret, onceM, gor, hist,
                   argSDKAddress, prevRun>>

\* rlp.EncodeToBytes(tx), the same of the foreign chain's twin, and
\* rlp.DecodeBytes of what tx gave.
EncodeRLPCall ==
    /\ tx # NoTx
    /\ call' =
         IF EncodeRLPFails(tx)
         THEN Method("EncodeRLP", "error",
                     [ref |-> IF EthEncodeRLPFails(EthTwin(tx)) THEN "error" ELSE "ok"])
         ELSE Method("EncodeRLP", "return",
                     [wire |-> EncodeRLP(tx),
                      ref |-> EthEncodeRLP(EthTwin(tx)),
                      decodes |-> ~DecodeRLPFails(EncodeRLP(tx)),
                      decoded |-> DecodeRLP(EncodeRLP(tx))])
    /\ UNCHANGED <<build, revision, mapSeed, sdkAddress, sdkAddressOnce, accounts, tx, ctxChainID, out,
                   accepted, reqIn, reqOut, ret, onceM, gor, hist,
                   argSDKAddress, prevRun>>

\* tx.ConvertTx(chainID).
ConvertTxCall(chainID) ==
    /\ tx # NoTx
    /\ call' = IF ConvertPanics(tx)
               THEN Method("ConvertTx", "panic", "nil pointer dereference")
               ELSE Method("ConvertTx", "return",
                           [chainID |-> chainID, ethTx |-> ConvertTx(tx, chainID)])
    /\ tx' = IF ConvertPanics(tx) THEN tx ELSE ConvertTxReceiver(tx, chainID)
    /\ UNCHANGED <<build, revision, mapSeed, sdkAddress, sdkAddressOnce, accounts, ctxChainID, out,
                   accepted, reqIn, reqOut, ret, onceM, gor, hist,
                   argSDKAddress, prevRun>>

GetEmbeddedTxCall ==
    /\ tx # NoTx
    /\ call' = Method("GetEmbeddedTx", "return", GetEmbeddedTx(tx))
    /\ UNCHANGED <<build, revision, mapSeed, sdkAddress, sdkAddressOnce, accounts, tx, ctxChainID, out,
                   accepted, reqIn, reqOut, ret, onceM, gor, hist,
                   argSDKAddress, prevRun>>

GetSignersCall ==
    /\ tx # NoTx
    /\ call' = IF TransactionGetSignersPanics(tx)
               THEN Method("GetSigners", "panic", "interface conversion")
               ELSE Method("GetSigners", "return", TransactionGetSigners(tx))
    /\ UNCHANGED <<build, revision, mapSeed, sdkAddress, sdkAddressOnce, accounts, tx, ctxChainID, out,
                   accepted, reqIn, reqOut, ret, onceM, gor, hist,
                   argSDKAddress, prevRun>>

NextTx ==
    \/ \E addr \in SDKAddrs : SetSDKAddress(addr)
    \/ tx = NoTx /\ \E t \in TxInputs : NewTx(t)
    \/ DropTx
    \/ \E c \in TxChainIds, key \in Keys, recid \in {0, 1} : SignCall(c, key, recid)
    \/ HasEmbeddedTxCall
    \/ ValidateBasicCall
    \/ EncodeRLPCall
    \/ \E c \in TxChainIds : ConvertTxCall(c)
    \/ GetEmbeddedTxCall
    \/ GetSignersCall

SpecTx == Init /\ [][NextTx]_vars

(***************************************************************************)
(* SetSDKAddress under concurrency.  Each goroutine calls it any number of *)
(* times, with any argument, and reads the reserved address as             *)
(* HasEmbeddedTx does.  sync.Once.Do is taken step by step: the atomic     *)
(* load of done, the lock, the second look at done, f, the atomic store of *)
(* done (deferred), the unlock (deferred).                                 *)
(***************************************************************************)
OnceAddrs == {"R", "P", ZeroAddr}      \* arguments given to SetSDKAddress

\* Do's first line: atomic.LoadUint32(&o.done) == 1 returns at once.
DoReturnsEarly(done) == done

\* Do running f without a second look at done.
DoRunsAlways(done) == TRUE

\* Do under the lock: f runs if o.done == 0.
DoRuns(done) == ~done

At(g, pc) == gor[g].pc = pc
Goto(g, pc) == [gor EXCEPT ![g].pc = pc]
Returned(g) == [gor EXCEPT ![g] = NotCalling]

Others ==
    <<build, accounts, tx, ctxChainID, out, accepted, reqIn, reqOut, ret, call,
      argSDKAddress, prevRun, revision, mapSeed>>

DoEnter(g, addr) ==
    /\ At(g, "idle")
    /\ gor' = [gor EXCEPT ![g] = [pc |-> "load", arg |-> addr]]
    /\ UNCHANGED <<sdkAddress, sdkAddressOnce, onceM, hist, Others>>

DoLoad(g) ==
    /\ At(g, "load")
    /\ IF DoReturnsEarly(sdkAddressOnce)
       THEN gor' = Returned(g) /\ hist' = [hist EXCEPT !.returned = TRUE]
       ELSE gor' = Goto(g, "lock") /\ hist' = hist
    /\ UNCHANGED <<sdkAddress, sdkAddressOnce, onceM, Others>>

DoLock(g) ==
    /\ At(g, "lock") /\ onceM = NoHolder
    /\ onceM' = g
    /\ gor' = Goto(g, "check")
    /\ hist' = [hist EXCEPT !.first = IF @ = <<>> THEN <<gor[g].arg>> ELSE @]
    /\ UNCHANGED <<sdkAddress, sdkAddressOnce, Others>>

DoCheck(g) ==
    /\ At(g, "check")
    /\ gor' = Goto(g, IF DoRuns(sdkAddressOnce) THEN "f" ELSE "unlock")
    /\ UNCHANGED <<sdkAddress, sdkAddressOnce, onceM, hist, Others>>

\* sdkAddress = addr is a plain store of 20 bytes: it begins ...
FBegin(g) ==
    /\ At(g, "f")
    /\ gor' = Goto(g, "writing")
    /\ UNCHANGED <<sdkAddress, sdkAddressOnce, onceM, hist, Others>>

\* ... and is complete.
FEnd(g) ==
    /\ At(g, "writing")
    /\ sdkAddress' = gor[g].arg
    /\ gor' = Goto(g, "store")
    /\ hist' = [hist EXCEPT !.ran = Append(@, gor[g].arg)]
    /\ UNCHANGED <<sdkAddressOnce, onceM, Others>>

DoStore(g) ==
    /\ At(g, "store")
    /\ sdkAddressOnce' = TRUE
    /\ gor' = Goto(g, "unlock")
    /\ UNCHANGED <<sdkAddress, onceM, hist, Others>>

DoUnlock(g) ==
    /\ At(g, "unlock")
    /\ onceM' = NoHolder
    /\ gor' = Returned(g)
    /\ hist' = [hist EXCEPT !.returned = TRUE]
    /\ UNCHANGED <<sdkAddress, sdkAddressOnce, Others>>

\* What a read of sdkAddress may give: its value, or, racing with a store
\* that is under way, also the value being stored or a mix of the two.
ReadOutcomes ==
    {sdkAddress}
        \cup UNION {{gor[h].arg, GarbageAddr} :
                      h \in {k \in Goroutines : At(k, "writing")}}

\* A read of sdkAddress; it is kept if a SetSDKAddress call had returned.
ReadSDKAddress(g, v) ==
    /\ At(g, "idle")
    /\ v \in ReadOutcomes
    /\ hist.returned
    /\ hist' = [hist EXCEPT !.seen = @ \cup {v}]
    /\ UNCHANGED <<sdkAddress, sdkAddressOnce, onceM, gor, Others>>

NextOnce ==
    \/ \E g \in Goroutines, addr \in OnceAddrs : DoEnter(g, addr)
    \/ \E g \in Goroutines : DoLoad(g)
    \/ \E g \in Goroutines : DoLock(g)
    \/ \E g \in Goroutines : DoCheck(g)
    \/ \E g \in Goroutines : FBegin(g)
    \/ \E g \in Goroutines : FEnd(g)
    \/ \E g \in Goroutines : DoStore(g)
    \/ \E g \in Goroutines : DoUnlock(g)
    \/ \E g \in Goroutines, v \in OnceAddrs \cup {GarbageAddr} : ReadSDKAddress(g, v)

SpecOnce == Init /\ [][NextOnce]_vars

(***************************************************************************)
(* Routing.  EthAnteHandler(config, sdkAddress, accountMapper) makes the   *)
(* handler: the closure it returns holds the sdkAddress it was given.      *)
(* Handlers are made with any address, SetSDKAddress is called or not, and *)
(* transactions to any recipient are submitted.                            *)
(***************************************************************************)
NewHandler(arg) ==
    /\ Idle
    /\ argSDKAddress' = arg
    /\ UNCHANGED <<build, revision, mapSeed, sdkAddress, sdkAddressOnce, accounts, tx, ctxChainID, out,
                   accepted, reqIn, reqOut, ret, call, onceM, gor, hist, prevRun>>

\* To each recipient, signed for the context: junk, and every batch of no
\* message or of one message with signer A.
RouteSubs ==
    {Submission(EmbChainID, "types.Transaction",
                SignedFor(NewTransaction(0, to, 1, MaxGas, 3, data), 1)) :
        to \in Recipients,
        data \in {RawPayload("junk")}
                    \cup {MarshalBinary(b) :
                            b \in BatchesOf(<<>>)
                                    \cup BatchesOf(<<Msg("bank", <<AccA>>, "")>>)}}

NextRoute ==
    \/ \E arg \in Recipients : NewHandler(arg)
    \/ \E addr \in SDKAddrs : SetSDKAddress(addr)
    \/ \E addr \in Addrs : SetAccount(addr)
    \/ Idle /\ \E sub \in RouteSubs : AnteHandler(sub)
    \/ Discard

SpecRoute == Init /\ [][NextRoute]_vars

(***************************************************************************)
(* Resubmission: one accepted batch is remembered, and every later call    *)
(* says whether it carries that batch under that chain id.                 *)
(***************************************************************************)
ReplayMsgSeqs ==
    {<<Msg("bank", <<AccA>>, "")>>,
     <<Msg("bank", <<AccA, AccB>>, "")>>,
     <<Msg("bank", <<AccA>>, ""), Msg("bank", <<AccA21>>, "")>>}
ReplayBatches == UNION {BatchesOf(msgs) : msgs \in ReplayMsgSeqs}
ReplaySubs(reserved) ==
    {Carrier(c, gas, b, reserved) :
        c \in CtxChainIDs, gas \in {0, MaxGas, 2 ^ (GasBits - 1)}, b \in ReplayBatches}
ReplayCalls ==
    {<<c, gas, b>> : c \in CtxChainIDs, gas \in {0, MaxGas}, b \in ReplayBatches}

\* The batch of this call is accepted, and remembered.
Remember(c) ==
    /\ CallEmbedded(c[1], c[2], c[3])
    /\ AcceptedBatch(out')
    /\ accepted' = {BatchKey(c[3], c[1])}

NextReplay ==
    \/ \E addr \in SDKAddrs : SetSDKAddress(addr)
    \/ \E addr \in Addrs : SetAccount(addr)
    \/ Idle /\ sdkAddressOnce /\ \E sub \in ReplaySubs(sdkAddress) : AnteHandler(sub)
    \/ Idle /\ \E c \in ReplayCalls : EmbeddedAnteHandler(c)
    \/ Idle /\ \E c \in ReplayCalls : Remember(c)
    \/ Discard

SpecReplay == Init /\ [][NextReplay]_vars

(***************************************************************************)
(* The same transaction validated twice.  The caller receives a            *)
(* transaction and keeps it: it may call ConvertTx on it, hands it to the  *)
(* handler, takes the outcome, and hands it in again, under the same or    *)
(* another context chain id.  A batch is likewise given twice to           *)
(* embeddedAnteHandler, on the store as the first call left it or on a new *)
(* store in which the accounts are made again.  `prevRun` keeps the        *)
(* transaction as received and the run before.                             *)
(***************************************************************************)
TwicePlain == NewTransaction(0, "P", 1, MaxGas, 3, RawPayload("junk"))
\* One message that A and B sign, in this order, each over sequence 0.
BatchOfTwo ==
    LET msgs == <<Msg("bank", <<AccA, AccB>>, "")>>
        doc  == SignBytes(EmbeddedTx(msgs, <<>>), EmbChainID, 0, 0)
    IN  EmbeddedTx(msgs, <<EmbSign("A", doc), EmbSign("B", doc)>>)
TwiceBatches ==
    BatchesOf(<<>>) \cup BatchesOf(<<Msg("bank", <<AccA>>, "")>>)
        \cup {BatchOfTwo}
TwiceTxs ==
    {TwicePlain, SignedFor(TwicePlain, 1), SignedFor(TwicePlain, 2),
     SignedFor(DecodeRLP(WireNoRecipient(0, 1, MaxGas, 3, RawPayload("junk"))), 1)}
        \cup {Carrier(EmbChainID, MaxGas, b, "R").tx : b \in TwiceBatches}
TwiceCalls == {<<c, MaxGas, b>> : c \in CtxChainIDs, b \in TwiceBatches}

Receive(t) ==
    /\ Idle /\ tx = NoTx /\ prevRun.kind = "none"
    /\ tx' = t
    /\ prevRun' = [kind |-> "held", sent |-> t, chainID |-> <<>>, out |-> NoCall]
    /\ UNCHANGED <<build, revision, mapSeed, sdkAddress, sdkAddressOnce, accounts, ctxChainID, out,
                   accepted, reqIn, reqOut, ret, call, onceM, gor, hist, argSDKAddress>>

\* A transaction is handed in again while its v is at most MaxDrift below
\* the v it was received with.
WithinDrift == prevRun'.sent.V - tx'.V <= MaxDrift

\* handler(ctx, tx) on the transaction in hand.
Validate(c, goType) ==
    /\ tx # NoTx /\ prevRun.kind # "none"
    /\ Call(Submission(c, goType, tx))
    /\ accepted' = IF AcceptedCarrier(out')
                   THEN {BatchKey(out'.etx, c)}
                   ELSE accepted

\* embeddedAnteHandler(ctx, etx, am) on a batch, a first or a second time.
ValidateBatch(c) ==
    /\ tx = NoTx
    /\ prevRun.kind = "none" \/ (prevRun.kind = "run" /\ prevRun.out.etx = c[3])
    /\ prevRun.kind = "run" => prevRun.out.entry = "embeddedAnteHandler"
    /\ CallEmbedded(c[1], c[2], c[3])
    /\ UNCHANGED accepted

\* The caller takes the outcome and keeps the transaction.
Take ==
    /\ ~Idle
    /\ prevRun.kind # "none" \/ out.entry = "embeddedAnteHandler"
    /\ out' = NoCall
    /\ prevRun' = [kind |-> "run", sent |-> IF prevRun.kind = "none" THEN tx ELSE prevRun.sent,
                    chainID |-> ctxChainID, out |-> out]
    /\ UNCHANGED <<build, revision, mapSeed, sdkAddress, sdkAddressOnce, accounts, tx, ctxChainID,
                   accepted, reqIn, reqOut, ret, call, onceM, gor, hist, argSDKAddress>>

\* SetupMultiStore: the next call gets a store over a new, empty database.
SetupMultiStore ==
    /\ Idle /\ prevRun.kind = "run"
    /\ accounts # [a \in Addrs |-> NoAccount]
    /\ accounts' = [a \in Addrs |-> NoAccount]
    /\ UNCHANGED <<build, revision, mapSeed, sdkAddress, sdkAddressOnce, tx, ctxChainID, out,
                   accepted, reqIn, reqOut, ret, call, onceM, gor, hist,
                   argSDKAddress, prevRun>>

\* The runtime starts its next iteration over a map somewhere else: Go
\* leaves the order of `range` over a map open, from one loop to the next.
MapOrders == {"forward", "backward"}
Reseed ==
    /\ Idle
    /\ mapSeed' \in MapOrders \ {mapSeed}
    /\ UNCHANGED <<build, revision, sdkAddress, sdkAddressOnce, accounts, tx, ctxChainID,
                   out, accepted, reqIn, reqOut, ret, call, onceM, gor, hist,
                   argSDKAddress, prevRun>>

\* The caller lets go of the transaction.
Release ==
    /\ Idle /\ prevRun.kind # "none"
    /\ tx' = NoTx
    /\ ctxChainID' = <<>>
    /\ call' = NoMethod
    /\ prevRun' = NoRun
    /\ UNCHANGED <<build, revision, mapSeed, sdkAddress, sdkAddressOnce, accounts, out,
                   accepted, reqIn, reqOut, ret, onceM, gor, hist, argSDKAddress>>

NextTwice ==
    \/ \E addr \in SDKAddrs : SetSDKAddress(addr)
    \/ \E addr \in Addrs : SetAccount(addr)
    \/ Idle /\ \E t \in TwiceTxs : Receive(t)
    \/ Idle /\ prevRun.kind = "held"
            /\ \E c \in {SetStringValue(s) : s \in CtxChainIDs} :
                    ConvertTxCall(c) /\ WithinDrift
    \/ Idle /\ \E c \in CtxChainIDs, g \in GoTypes : Validate(c, g) /\ WithinDrift
    \/ Idle /\ \E c \in TwiceCalls : ValidateBatch(c)
    \/ Take
    \/ SetupMultiStore
    \/ Release

\* Either revision of the file may be the one compiled in.
InitTwice == InitState /\ revision \in Revisions

SpecTwice == InitTwice /\ [][NextTwice]_vars

\* The same under types/tx.go, with the runtime free to change its map
\* iteration order between any two calls.
NextAgain == NextTwice \/ Reseed

SpecAgain == Init /\ [][NextAgain]_vars

(***************************************************************************)
(* Properties.  They speak of the last call: the transaction `tx`, the     *)
(* context chain id `ctxChainID`, and its outcome `out` with the store     *)
(* before (out.pre) and after (out.store) and the log out.events.          *)
(***************************************************************************)
TheBatch == out.etx
Signers == GetRequiredSigners(TheBatch)
Ev == out.events

\* The call went through embedded validation.
Validated == out.embedded

\* The sequence position i's signer has in the store when position i is
\* checked, every earlier position having been verified and incremented.
SeqAtCheck(i) ==
    out.pre[Signers[i]] + Cardinality({j \in 1..(i - 1) : Signers[j] = Signers[i]})

\* Signature i recovers to signer i over the sign bytes of that sequence.
Verifies(i) ==
    /\ out.pre[Signers[i]] # NoAccount
    /\ SigToPub(build, SignBytes(TheBatch, ctxChainID, 0, SeqAtCheck(i)),
                TheBatch.Signatures[i])
         = Recovery("", FALSE, Signers[i])

\* C1: when the pipeline returns abort=false for a transaction sent to the
\* reserved address, the payload decoded to a batch, the batch passed
\* ValidateBasic, and every required signer's signature, position by
\* position, recovers to that signer over the sign bytes for the context
\* chain id and the signer's sequence as stored when it was checked; and
\* embeddedAnteHandler, called with a batch, accepts it on the same terms.
C1_AcceptedBatchVerified ==
    (out.kind = "return" /\ ~out.abort
        /\ \/ out.entry = "embeddedAnteHandler"
           \/ out.entry = "EthAnteHandler" /\ HasEmbeddedTx(tx, out.reserved))
        => /\ out.entry = "EthAnteHandler"
                => GetEmbeddedTx(tx) = [err |-> "", etx |-> TheBatch]
           /\ Validated
           /\ ValidateBasic(TheBatch) = ""
           /\ Len(TheBatch.Signatures) = Len(Signers)
           /\ \A i \in 1..Len(Signers) : Verifies(i)

C1_Witness ==
    /\ out.kind = "return" /\ ~out.abort /\ Validated
    /\ Len(Signers) = 2 /\ Signers[1] # Signers[2]
    /\ out.store # out.pre

\* C2: on every normal return of EthAnteHandler, those handed on from
\* embedded validation included, abort is true exactly when the result is
\* not OK.
C2_AbortIffNotOK ==
    out.kind = "return" => (out.abort <=> ~IsOK(out))

\* A carrier whose batch has no message and one signature: refused by
\* embedded validation, and the handler hands the refusal on.
C2_Witness ==
    /\ out.entry = "EthAnteHandler" /\ Validated
    /\ TheBatch = EmbeddedTx(<<>>, <<Malformed>>)
    /\ out.kind = "return" /\ out.abort /\ out.code = "Unauthorized"

\* The writes of the call to account a, as positions of the log.
Writes(a) == {j \in 1..Len(Ev) : Ev[j].op = "SetAccount" /\ Ev[j].addr = a}

\* A write comes directly after the read of that signer's sequence and the
\* successful verification at that sequence, and adds 1 to it.
WriteAfterVerify ==
    \A j \in 1..Len(Ev) : Ev[j].op = "SetAccount" =>
        /\ j >= 3
        /\ Ev[j - 2] = [op |-> "GetSequence", addr |-> Ev[j].addr, seq |-> Ev[j].seq - 1]
        /\ Ev[j - 1] = [op |-> "verify", addr |-> Ev[j].addr, seq |-> Ev[j].seq - 1,
                        ok |-> TRUE]

\* A successful verification is of the signature at that position, over the
\* sign bytes for the sequence the signer has in the store at that moment.
VerifyIsCurrent ==
    \A j \in 1..Len(Ev) : (Ev[j].op = "verify" /\ Ev[j].ok) =>
        LET i == Cardinality({k \in 1..j : Ev[k].op = "GetSequence"})
        IN  /\ Ev[j].addr = Signers[i]
            /\ Ev[j].seq = out.pre[Ev[j].addr]
                             + Cardinality({k \in Writes(Ev[j].addr) : k < j})
            /\ SigToPub(build, SignBytes(TheBatch, ctxChainID, 0, Ev[j].seq),
                        TheBatch.Signatures[i])
                 = Recovery("", FALSE, Ev[j].addr)

\* The successful verification at log position j is followed by the write.
VerifyThenWrite(j) ==
    /\ j < Len(Ev)
    /\ Ev[j + 1] = [op |-> "SetAccount", addr |-> Ev[j].addr, seq |-> Ev[j].seq + 1]

\* The store moved by the logged writes and by nothing else.
StoreIsWrites ==
    \A a \in Addrs : out.store[a] = out.pre[a] + Cardinality(Writes(a))

\* C3 (as stated): within one embedded validation a sequence is written only
\* after that signer's signature was verified for its current sequence, every
\* successful verification is followed by exactly one increment by 1, and
\* nothing else is incremented.
C3_EveryVerificationIncrements ==
    /\ WriteAfterVerify
    /\ VerifyIsCurrent
    /\ StoreIsWrites
    /\ \A j \in 1..Len(Ev) : (Ev[j].op = "verify" /\ Ev[j].ok) => VerifyThenWrite(j)

\* The call ended in the out-of-gas panic of the metered store.
OutOfGasPanic == out.kind = "panic" /\ out.panic = "ErrorOutOfGas"

\* C3 (amended): the same, except that a successful verification is not
\* followed by its increment when gas runs out between the two; validation
\* then ends in the out-of-gas panic.
C3_VerificationIncrementsUnlessOutOfGas ==
    /\ WriteAfterVerify
    /\ VerifyIsCurrent
    /\ StoreIsWrites
    /\ \A j \in 1..Len(Ev) : (Ev[j].op = "verify" /\ Ev[j].ok) =>
            \/ VerifyThenWrite(j)
            \/ j = Len(Ev) /\ OutOfGasPanic

\* Out of gas after the second signer's verification, the first one's
\* sequence increased.
C3_Witness ==
    /\ OutOfGasPanic /\ Len(Ev) > 3
    /\ Ev[Len(Ev)].op = "verify" /\ Ev[Len(Ev)].ok
    /\ Ev[3].op = "SetAccount"
    /\ out.store[Ev[3].addr] = out.pre[Ev[3].addr] + 1

\* The first position whose lookup or verification fails; one past the last
\* position when none does.
FirstFailure ==
    CHOOSE k \in 1..(Len(Signers) + 1) :
        /\ \A i \in 1..(k - 1) : Verifies(i)
        /\ k = Len(Signers) + 1 \/ ~Verifies(k)

\* C4: when embedded validation of a batch that passed ValidateBasic
\* returns, exactly the required signers before the first failing one (all
\* of them when none fails) have their sequence increased by 1, and every
\* other account's sequence is unchanged.
C4_SignersBeforeFailureIncrementedOnce ==
    (out.kind = "return" /\ out.code # "OutOfGas" /\ Validated
        /\ ValidateBasic(TheBatch) = "")
        => \A a \in Addrs :
              out.store[a] = IF a \in {Signers[i] : i \in 1..(FirstFailure - 1)}
                             THEN out.pre[a] + 1
                             ELSE out.pre[a]

\* Signers [A, B]: A valid and B failing leaves A increased and B unchanged.
C4_Witness ==
    /\ out.kind = "return" /\ out.abort /\ Validated
    /\ Signers = <<"A", "B">>
    /\ out.store["A"] = out.pre["A"] + 1
    /\ out.store["B"] = out.pre["B"] /\ out.pre["B"] # NoAccount

\* C5: a later submission of a batch that was accepted with a required
\* signer, with the same signatures and under the same context chain id, is
\* rejected with abort=true and Unauthorized, and changes no sequence.
C5_ReplayUnauthorized ==
    out.replay =>
        /\ out.kind = "return" /\ out.abort /\ out.code = "Unauthorized"
        /\ out.store = out.pre

\* The batch A signed over sequence 0 was accepted, and is given again at
\* sequence 1.
C5_Witness ==
    /\ out.replay /\ Signers = <<"A">> /\ out.pre["A"] = 1
    /\ TheBatch.Signatures = <<EmbSign("A", SignBytes(TheBatch, ctxChainID, 0, 0))>>
    /\ out.limit = MaxGas

\* C6: a transaction signed with Sign(c_sign, key) and submitted under the
\* decimal form of a different non-negative chain id is rejected with
\* abort=true and a signature-verification failure.
C6_OtherChainRejected ==
    (out.kind # "none" /\ ~Unsigned(tx) /\ ~ConvertPanics(tx)
        /\ \E c \in ChainIds : ctxChainID = Decimal(c) /\ c # tx.RS.hash.chain)
        => out.kind = "return" /\ out.abort /\ out.code = "Unauthorized"

\* Signed for chain 5, submitted on "2": rejected.
C6_Witness ==
    /\ ~Unsigned(tx) /\ tx.RS.hash.chain = 5 /\ ctxChainID = Decimal(2)
    /\ out.kind = "return" /\ out.abort /\ out.code = "Unauthorized"

\* C7: after tx.Sign(chainId, key), ConvertTx(chainId) followed by the
\* EIP-155 signer's Sender gives the address derived from key, for every key
\* and every chain id, 0 included.
C7_SignRecoverRoundTrip ==
    (tx # NoTx /\ ~Unsigned(tx) /\ ~ConvertPanics(tx))
        => DeriveSender(tx, tx.RS.hash.chain)
             = [ok |-> TRUE, addr |-> PrivKeyToAddress(tx.RS.key), err |-> ""]

\* C8: an unsigned transaction submitted under a context chain id that
\* parses is rejected with abort=true and a signature failure; the call
\* returns and no account changes.
C8_UnsignedRejected ==
    (out.kind # "none" /\ Unsigned(tx) /\ SetStringOK(ctxChainID))
        => /\ out.kind = "return" /\ out.abort /\ out.code = "Unauthorized"
           /\ out.store = out.pre

\* Unsigned with a recipient, on "2": rejected.
C8_Witness ==
    /\ Unsigned(tx) /\ tx.recipient = "P" /\ ctxChainID = Decimal(2)
    /\ out.kind = "return" /\ out.abort /\ out.code = "Unauthorized"

\* t is what Sign(c, key) leaves of a transaction, for some key.
SignedBy(t, c) ==
    /\ ~Unsigned(t)
    /\ t = Sign([t EXCEPT !.V = 0, !.RS = ZeroRS], c, t.RS.key, t.RS.recid)

\* The last call handled a transaction signed by Sign for the chain id of
\* its context and sent to a plain recipient.
SignedForContext ==
    /\ out.kind # "none"
    /\ tx.recipient \notin {NilRecipient, out.reserved}
    /\ SetStringOK(ctxChainID)
    /\ SignedBy(tx, SetStringValue(ctxChainID))

\* C9 (as stated): a transaction signed with Sign(c, key) for the context's
\* chain id c, with a recipient that is not the reserved address, is
\* accepted: abort=false and an OK result, for every c.
C9_SignedPlainAccepted ==
    SignedForContext => out.kind = "return" /\ ~out.abort /\ IsOK(out)

\* C9 (amended): the same for every chain id c that is not negative.
C9_SignedNonNegativeAccepted ==
    (SignedForContext /\ SetStringValue(ctxChainID) >= 0)
        => out.kind = "return" /\ ~out.abort /\ IsOK(out)

C9_Witness ==
    /\ out.kind = "return" /\ ~out.abort /\ IsOK(out)
    /\ ~Unsigned(tx) /\ tx.recipient = "P" /\ tx.RS.key = "B" /\ tx.RS.recid = 1
    /\ tx.RS.hash.chain = 130 /\ ctxChainID = Decimal(130)

\* The addresses the messages given to GetRequiredSigners declare, in order.
Declared ==
    LET accs == Flatten([i \in 1..Len(reqIn) |-> MsgGetSigners(reqIn[i])])
    IN  [i \in 1..Len(accs) |-> BytesToAddress(accs[i])]
FirstIndex(s, x) == CHOOSE i \in 1..Len(s) : s[i] = x /\ \A j \in 1..(i - 1) : s[j] # x

\* C10: GetRequiredSigners returns every declared signer exactly once, in
\* the order of first occurrence.
C10_StableDeduplication ==
    /\ Range(reqOut) = Range(Declared)
    /\ \A i, j \in 1..Len(reqOut) : reqOut[i] = reqOut[j] => i = j
    /\ \A i, j \in 1..Len(reqOut) :
          i < j => FirstIndex(Declared, reqOut[i]) < FirstIndex(Declared, reqOut[j])

\* Messages declaring [A, B] and [B, C] give [A, B, C].
C10_Witness ==
    /\ reqIn = <<Msg("bank", <<AccA, AccB>>, ""), Msg("bank", <<AccB, AccC>>, "")>>
    /\ reqOut = <<"A", "B", "C">>

\* No account was read or written by the call: the log of store accesses is
\* empty, no gas was consumed by one, and the store is as it was.
StoreUntouched == Ev = <<>> /\ out.consumed = 0 /\ out.store = out.pre

\* C11: a batch whose number of signatures differs from the number of
\* required signers GetRequiredSigners returns for it (more or fewer, one
\* signature with no required signer included) is rejected by embedded
\* validation with abort=true and Unauthorized, and the account store is
\* neither read nor written.
C11_SignatureCountMismatchUnauthorized ==
    (out.kind # "none" /\ Validated /\ Len(TheBatch.Signatures) # Len(Signers))
        => /\ out.kind = "return" /\ out.abort /\ out.code = "Unauthorized"
           /\ StoreUntouched

\* One signature fewer than the two required signers, with accounts present.
C11_Witness ==
    /\ Validated /\ Len(Signers) = 2 /\ Len(TheBatch.Signatures) = 1
    /\ out.abort /\ out.code = "Unauthorized"
    /\ \A i \in 1..2 : out.pre[Signers[i]] # NoAccount

\* The batch of the last call holds a message declaring the Ethereum type.
HasNestedTransaction ==
    \E i \in 1..Len(TheBatch.Messages) : MsgType(TheBatch.Messages[i]) = TypeTxEthereum

\* C12: a batch holding a message whose declared type is that of
\* Transaction.Type() is never accepted: embedded validation returns
\* abort=true for it and no account's sequence changes.
C12_NestedTransactionRejected ==
    (out.kind # "none" /\ Validated /\ HasNestedTransaction)
        => /\ out.kind = "return" /\ out.abort
           /\ out.store = out.pre

\* A message of the Ethereum type that names its signer, correctly signed
\* for: rejected as undecodable.
C12_Witness ==
    /\ Validated /\ HasNestedTransaction
    /\ Len(TheBatch.Signatures) = Len(Signers) /\ Len(Signers) = 1
    /\ out.kind = "return" /\ out.abort /\ out.code = "TxDecode"
    /\ out.store = out.pre /\ out.pre[Signers[1]] # NoAccount

\* The last call was given a types.Transaction under a chain id that parses,
\* and the outer signature passed the EIP-155 signer.
OuterVerified ==
    /\ out.kind # "none" /\ out.goType = "types.Transaction"
    /\ SetStringOK(ctxChainID) /\ ~ConvertPanics(tx)
    /\ DeriveSender(tx, SetStringValue(ctxChainID)).ok

\* C13: a correctly signed transaction to the reserved address whose
\* payload is not the encoding of an EmbeddedTx is rejected with abort=true
\* and a tx-decode failure, and no account is read or written.
C13_UndecodablePayloadRejected ==
    (OuterVerified /\ HasEmbeddedTx(tx, out.reserved)
        /\ tx.payload.enc # "types/EmbeddedTx")
        => /\ out.kind = "return" /\ out.abort /\ out.code = "TxDecode"
           /\ StoreUntouched

\* Junk sent to the reserved address R, signed for chain 2, accounts present.
C13_Witness ==
    /\ OuterVerified /\ out.reserved = "R" /\ tx.recipient = "R"
    /\ tx.payload = RawPayload("junk") /\ ctxChainID = Decimal(2)
    /\ out.abort /\ out.code = "TxDecode"
    /\ \A a \in Addrs : out.pre[a] # NoAccount

\* C14: a correctly signed transaction to the reserved address whose
\* payload encodes the empty batch (no messages, no signatures) goes
\* through embedded validation and is accepted: abort=false, an OK result,
\* and no account changes.
C14_EmptyBatchAccepted ==
    (OuterVerified /\ HasEmbeddedTx(tx, out.reserved)
        /\ tx.payload = MarshalBinary(EmbeddedTx(<<>>, <<>>)))
        => /\ out.kind = "return" /\ ~out.abort /\ IsOK(out)
           /\ Validated /\ out.metered
           /\ StoreUntouched

C14_Witness ==
    /\ OuterVerified /\ out.reserved = "R" /\ tx.recipient = "R"
    /\ tx.payload = MarshalBinary(EmbeddedTx(<<>>, <<>>)) /\ ctxChainID = Decimal(2)
    /\ ~out.abort /\ IsOK(out)
    /\ \A a \in Addrs : out.pre[a] # NoAccount

\* The gas meter of the last call overflowed: ConsumeGas panicked.
OutOfGasRaised == out.kind # "none" /\ out.metered /\ out.consumed > out.limit

\* The panics that are not out-of-gas and are raised before the signer
\* loop, by their cause: the nil recipient in ConvertTx, and in embedded
\* validation GetSigners of a types.Transaction message in ValidateBasic.
PanicInConvertTx ==
    /\ out.kind # "none" /\ out.goType = "types.Transaction"
    /\ SetStringOK(ctxChainID) /\ ConvertPanics(tx)
PanicInGetSigners == Validated /\ RequiredSignersPanic(TheBatch)

Checks == {k \in 1..Len(Ev) : Ev[k].op = "GetSequence" /\ Ev[k].seq # NoAccount}

\* What SigToPub gives for the check at log position k.
Recovered(k) ==
    LET i == Cardinality({j \in 1..k : Ev[j].op = "GetSequence"})
    IN  SigToPub(build, SignBytes(TheBatch, ctxChainID, 0, Ev[k].seq),
                 TheBatch.Signatures[i])

\* C17: whatever bytes a signature is, its check returns: when recovery
\* fails or gives another address than the expected signer the call ends
\* with abort=true and Unauthorized, and validation goes on only when the
\* recovered address is the expected signer.  A recovery failure is never
\* a panic.
C17_RecoveryFailureUnauthorized ==
    Validated => \A k \in Checks :
        IF Recovered(k).panic # "" \/ Recovered(k).err \/ Recovered(k).addr # Ev[k].addr
        THEN out.kind = "return" /\ out.abort /\ out.code = "Unauthorized"
        ELSE k < Len(Ev) /\ Ev[k + 1].op = "verify" /\ Ev[k + 1].ok

\* Another key's signature at the second signer: Unauthorized.
C17_Witness ==
    /\ Validated /\ Cardinality(Checks) = 2
    /\ \E k \in Checks : ~Recovered(k).err /\ Recovered(k).addr \in Addrs \ {Ev[k].addr}
    /\ out.kind = "return" /\ out.abort /\ out.code = "Unauthorized"

\* The position the signer loop got to: one past the signers whose sequence
\* it wrote.
LoopPosition == Cardinality({j \in 1..Len(Ev) : Ev[j].op = "SetAccount"}) + 1

\* Validation reaches a required signer that has no account: the loop wrote
\* the sequence of every signer before it.
MissingSigner ==
    /\ Validated /\ ValidateBasic(TheBatch) = ""
    /\ LoopPosition <= Len(Signers)
    /\ out.pre[Signers[LoopPosition]] = NoAccount

\* Nothing was verified for, and nothing written to, the missing signer.
MissingSignerUntouched ==
    /\ out.store[Signers[LoopPosition]] = NoAccount
    /\ \A j \in 1..Len(Ev) :
          Ev[j].addr = Signers[LoopPosition] => Ev[j].op = "GetSequence" /\ Ev[j].seq = NoAccount

C19_GetSequenceReturnsStored ==
    ret.op = "GetSequence" =>
        IF ret.pre[ret.addr] # NoAccount
        THEN ret.err = "" /\ ret.seq = ret.pre[ret.addr]
        ELSE ret.err # ""

\* GetSequence of an address without account: an error.
C19_Witness ==
    /\ ret.op = "GetSequence" /\ ret.pre[ret.addr] = NoAccount /\ ret.err # ""
    /\ \E a \in Addrs : ret.pre[a] > 0

\* C20: NewAccount for an address that has an account returns an error and
\* leaves the store as it was, the sequence not reset; for an address
\* without account it stores the account with sequence 0 and returns no
\* error.
C20_NewAccountOnlyCreates ==
    ret.op = "NewAccount" =>
        IF ret.pre[ret.addr] # NoAccount
        THEN ret.err # "" /\ accounts = ret.pre
        ELSE ret.err = "" /\ accounts = [ret.pre EXCEPT ![ret.addr] = 0]

\* NewAccount on an account whose sequence is above 0.
C20_Witness ==
    /\ ret.op = "NewAccount" /\ ret.pre[ret.addr] > 0
    /\ ret.err = "Unauthorized" /\ accounts[ret.addr] = ret.pre[ret.addr]

\* C21: HasEmbeddedTx called on any transaction, its recipient present or
\* absent, returns, and returns true exactly when the recipient is the
\* reserved address; and a transaction whose outer signature is verified
\* goes to embedded validation exactly then, and is otherwise accepted as a
\* plain transfer.
C21_CarrierIffReservedRecipient ==
    /\ call.op = "HasEmbeddedTx"
          => /\ call.kind = "return"
             /\ call.result = (call.tx.recipient = call.reserved)
    /\ OuterVerified
          => IF tx.recipient = out.reserved
             THEN Validated \/ (out.abort /\ out.code = "TxDecode")
             ELSE out.kind = "return" /\ ~out.abort /\ IsOK(out) /\ StoreUntouched

\* A transaction sent to the reserved address R: HasEmbeddedTx is true.
C21_Witness ==
    /\ call.op = "HasEmbeddedTx" /\ call.kind = "return" /\ call.result
    /\ call.reserved = "R" /\ call.tx.recipient = "R"

\* C22: however many SetSDKAddress calls are made, one after another or at
\* the same time, and whatever their arguments, the function that stores the
\* address runs at most once, for the first call to take the lock, with that
\* call's argument; the address holds that value from then on, every other
\* call stores nothing; when any call has returned the store has been made,
\* and every read made after that sees its value.
C22_ReservedAddressSetOnce ==
    /\ Len(hist.ran) <= 1
    /\ hist.ran # <<>> => hist.ran = hist.first /\ sdkAddress = hist.ran[1]
    /\ hist.ran = <<>> => sdkAddress = ZeroAddr
    /\ hist.returned => hist.ran # <<>> /\ sdkAddressOnce
    /\ \A v \in hist.seen : hist.ran # <<>> /\ v = hist.ran[1]

\* Two calls with different arguments are inside Do at once; one has stored
\* its argument, and a read after a return saw it.
C22_Witness ==
    /\ hist.ran = <<"P">> /\ hist.seen = {"P"}
    /\ \E g \in Goroutines : At(g, "lock") /\ gor[g].arg = "R"
    /\ \E g \in Goroutines : At(g, "unlock") /\ gor[g].arg = ZeroAddr

\* C23: Transaction.ValidateBasic returns an error of code CodeInvalidValue
\* exactly when gasPrice <= 0 or amount <= 0, zero and negative alike, each
\* of the two on its own, and returns no error when both are positive.
C23_ValidateBasicPositive ==
    call.op = "ValidateBasic" =>
        /\ call.kind = "return"
        /\ call.result.code = CodeInvalidValue
              <=> (call.tx.price <= 0 \/ call.tx.amount <= 0)
        /\ (call.tx.price > 0 /\ call.tx.amount > 0) => call.result = NoError

\* A positive price with amount zero: refused for the amount alone.
C23_Witness ==
    /\ call.op = "ValidateBasic" /\ call.tx.price = 256 /\ call.tx.amount = 0
    /\ call.result.code = CodeInvalidValue

\* C24: the pipeline returns abort=true for every submitted transaction
\* whose amount or gasPrice is zero or negative, its signature valid or not.
C24_NonPositiveValueRejected ==
    (out.kind # "none" /\ (tx.amount <= 0 \/ tx.price <= 0))
        => out.kind = "return" /\ out.abort

\* C25: for every transaction with non-negative gasPrice and amount, built
\* by NewTransaction or decoded, signed or not, encoding succeeds, and
\* decoding what was encoded gives a transaction equal to it in every
\* field: nonce, gasPrice, gasLimit, recipient (absent included), amount,
\* payload, v, r, s.
C25_EncodeDecodeRoundTrip ==
    (call.op = "EncodeRLP" /\ call.tx.price >= 0 /\ call.tx.amount >= 0)
        => /\ call.kind = "return"
           /\ call.result.decodes
           /\ call.result.decoded = call.tx

\* Signed for chain 130 (v takes two bytes), nonce 257, no recipient.
C25_Witness ==
    /\ call.op = "EncodeRLP" /\ call.kind = "return"
    /\ call.tx.recipient = NilRecipient /\ call.tx.nonce = 257 /\ call.tx.V > 255
    /\ call.result.decoded = call.tx

\* C26: the encoding of a transaction is the foreign chain's encoding of
\* the transaction with the same field values and signature: the nine
\* items nonce, gasPrice, gasLimit, recipient, amount, payload, v, r, s and
\* nothing after them; and one fails exactly when the other does.
C26_EncodingEqualsReference ==
    call.op = "EncodeRLP" =>
        IF call.kind = "return"
        THEN call.result.wire = call.result.ref /\ Len(call.result.wire) = 9
        ELSE call.result.ref = "error"

\* A signed transaction to a recipient, with a payload: nine items, none empty
\* but where the value is zero.
C26_Witness ==
    /\ call.op = "EncodeRLP" /\ call.kind = "return"
    /\ call.tx.recipient = "P" /\ ~Unsigned(call.tx) /\ call.tx.amount = 256
    /\ call.result.wire = call.result.ref
    /\ call.result.wire[5] = <<1, 0>> /\ call.result.wire[4] = <<"P">>

\* The chain id a transaction signed by Sign was signed for, from its v.
SignedChain(t) == IF t.V \in {27, 28} THEN 0 ELSE (t.V - 35) \div 2

\* C27: for a transaction built by NewTransaction and signed with
\* Sign(chainId, key), ConvertTx(chainId) is the foreign chain's
\* transaction of the same six fields signed by the reference EIP-155
\* signer with the same key and chain id: the same fields and the same
\* (v, r, s); rebuilding the signature from (v, r, s) and re-encoding it
\* gives back the stored v.
C27_ConvertEqualsReferenceSigned ==
    (call.op = "ConvertTx" /\ ~Unsigned(call.tx) /\ call.tx.recipient # NilRecipient
        /\ call.result.chainID = SignedChain(call.tx))
        => /\ call.kind = "return"
           /\ call.result.ethTx = EthSignTx(TxBody(call.tx), SignedChain(call.tx),
                                            call.tx.RS.key, call.tx.RS.recid)
           /\ call.result.ethTx.V = call.tx.V

\* Signed for chain 130 by B with recovery id 1, converted under 130.
C27_Witness ==
    /\ call.op = "ConvertTx" /\ call.kind = "return" /\ ~Unsigned(call.tx)
    /\ call.result.chainID = 130 /\ SignedChain(call.tx) = 130
    /\ call.tx.RS.key = "B" /\ call.tx.RS.recid = 1
    /\ call.result.ethTx.V = 296

\* C28: for any batch b, one whose number of signatures differs from its
\* required signers included, a transaction to the reserved address whose
\* payload is the encoding of b reports HasEmbeddedTx() = true, and
\* GetEmbeddedTx() returns b as it was with no error: nothing about the
\* batch is validated by decoding.
C28_DecodeReturnsBatch ==
    \A b \in TxBatches :
        /\ (call.op = "HasEmbeddedTx" /\ call.tx.payload = MarshalBinary(b)
                /\ call.tx.recipient = call.reserved)
              => call.kind = "return" /\ call.result = TRUE
        /\ (call.op = "GetEmbeddedTx" /\ call.tx.payload = MarshalBinary(b))
              => call.kind = "return" /\ call.result = [err |-> "", etx |-> b]

\* No message and one signature, sent to the reserved address R.
C28_Witness ==
    /\ call.op = "GetEmbeddedTx" /\ call.reserved = "R" /\ call.tx.recipient = "R"
    /\ call.tx.payload = MarshalBinary(EmbeddedTx(<<>>, <<Malformed>>))
    /\ call.result = [err |-> "", etx |-> EmbeddedTx(<<>>, <<Malformed>>)]

\* C29: for a transaction that has been signed, Transaction.GetSigners
\* returns, without a panic, exactly one signer: the address of the key that
\* signed it.
C29_GetSignersReturnsSender ==
    (call.op = "GetSigners" /\ ~Unsigned(call.tx))
        => /\ call.kind = "return"
           /\ call.result = <<PrivKeyToAddress(call.tx.RS.key)>>

\* C30: Sign(chainId, key) stores v = recoveryId + 27 for chain id 0 and
\* v = recoveryId + 35 + 2 * chainId otherwise, for both recovery ids and
\* every chain id, nothing cut off for a large one; r and s are those of
\* the signature made with key over the hash of the six fields and
\* (chainId, 0, 0).
C30_SignStoresEIP155V ==
    (tx # NoTx /\ ~Unsigned(tx)) =>
        /\ tx.RS.recid \in {0, 1} /\ tx.RS.key \in Keys
        /\ tx.RS.hash = EIP155Hash(TxBody(tx), tx.RS.hash.chain)
        /\ tx.V = IF tx.RS.hash.chain = 0 THEN tx.RS.recid + 27
                  ELSE tx.RS.recid + 35 + 2 * tx.RS.hash.chain

\* Chain id 111 with recovery id 1: v = 258, past one byte.
C30_Witness ==
    /\ tx # NoTx /\ ~Unsigned(tx) /\ Idle
    /\ tx.RS.hash.chain = 111 /\ tx.RS.recid = 1 /\ tx.V = 258

\* The reads of a sequence in the log of the call, and which position of the
\* required signers the read at log position k is for.
Reads == {k \in 1..Len(Ev) : Ev[k].op = "GetSequence"}
PositionOf(k) == Cardinality({j \in Reads : j <= k})

\* What the store holds for account a when log position k is reached.
StoreAt(a, k) ==
    IF out.pre[a] = NoAccount THEN NoAccount
    ELSE out.pre[a] + Cardinality({j \in Writes(a) : j < k})

\* The log is made of one group per position, in the order of the required
\* signers: the read of the sequence as the store holds it then, the check of
\* the signature over that sequence, the write of the sequence plus one; the
\* read for a position follows the write for the position before it.
StepsInSignerOrder ==
    \A k \in 1..Len(Ev) :
        /\ Ev[k].op = "GetSequence" =>
              /\ PositionOf(k) <= Len(Signers)
              /\ Ev[k].addr = Signers[PositionOf(k)]
              /\ Ev[k].seq = StoreAt(Ev[k].addr, k)
              /\ k > 1 => /\ Ev[k - 1].op = "SetAccount"
                          /\ Ev[k - 1].addr = Signers[PositionOf(k) - 1]
        /\ Ev[k].op = "verify" =>
              /\ k > 1 /\ Ev[k - 1].op = "GetSequence"
              /\ Ev[k - 1].addr = Ev[k].addr /\ Ev[k - 1].seq = Ev[k].seq
        /\ Ev[k].op = "SetAccount" =>
              /\ k > 1 /\ Ev[k - 1].op = "verify" /\ Ev[k - 1].ok
              /\ Ev[k - 1].addr = Ev[k].addr /\ Ev[k - 1].seq + 1 = Ev[k].seq

\* No account's sequence is read twice by one call.
ReadOncePerSigner ==
    \A a \in Addrs : Cardinality({k \in Reads : Ev[k].addr = a}) <= 1

\* C31: within one embedded batch the steps happen in the order of the
\* required signers: for each signer the read of its sequence, the check of
\* its signature and the increment, in that order, the increment being in
\* the store before the next signer's sequence is read; and each signer's
\* sequence is read at most once by one validation.
C31_SignerStepsInOrder ==
    StepsInSignerOrder /\ ReadOncePerSigner

\* Signers [A, B], both verified: six steps, A's before B's.
C31_Witness ==
    /\ Validated /\ Signers = <<"A", "B">> /\ Len(Ev) = 6
    /\ Ev[3] = [op |-> "SetAccount", addr |-> "A", seq |-> out.pre["A"] + 1]
    /\ Ev[4].op = "GetSequence" /\ Ev[4].addr = "B"

\* The call was refused with this code before any account was read or written.
RefusedEarly(code) ==
    /\ out.kind = "return" /\ out.abort /\ out.code = code
    /\ StoreUntouched

\* The outcome is that of the first check, in the order of the pipeline, that
\* the submission does not pass.
FirstFailingCheck ==
    IF out.goType # "types.Transaction"
    THEN RefusedEarly("Internal") /\ ~out.metered
    ELSE IF ~SetStringOK(ctxChainID)
    THEN RefusedEarly("Internal") /\ out.metered
    ELSE IF ~DeriveSender(tx, SetStringValue(ctxChainID)).ok
    THEN RefusedEarly("Unauthorized")
    ELSE IF tx.recipient = out.reserved /\ GetEmbeddedTx(tx).err # ""
    THEN RefusedEarly("TxDecode")
    ELSE IF tx.recipient = out.reserved
    THEN Validated
    ELSE out.kind = "return" /\ ~out.abort /\ IsOK(out) /\ StoreUntouched

\* C32: when several checks of the pipeline would fail for one submission,
\* the outcome is that of the first in the order: not a types.Transaction,
\* context chain id not a base-10 integer, outer signature not recoverable,
\* payload not decodable, embedded validation.  No later step runs: the
\* rejection of another type returns with no meter installed, and a chain
\* id that does not parse is rejected before any recovery, decoding or store
\* access.
C32_FirstFailingCheckReported ==
    out.entry = "EthAnteHandler" => FirstFailingCheck

\* Chain id "x", unsigned, no recipient, junk payload: the chain id is reported.
C32_Witness ==
    /\ out.goType = "types.Transaction" /\ ctxChainID = <<"x">>
    /\ Unsigned(tx) /\ tx.recipient = NilRecipient /\ tx.payload = RawPayload("junk")
    /\ RefusedEarly("Internal") /\ out.metered

\* Message i of the batch is refused by ValidateBasic's loop: it declares the
\* Ethereum type or fails its own validation.
BadMsg(i) ==
    \/ MsgType(TheBatch.Messages[i]) = TypeTxEthereum
    \/ MsgValidateBasic(TheBatch.Messages[i]) # ""

\* C33: EmbeddedTx.ValidateBasic reports the first failing check: a number
\* of signatures other than the number of required signers first, even when
\* a message is invalid too; then, message by message in batch order, the
\* nesting check and after it the message's own validation, whose error is
\* returned as it is; no message after the first failing one counts.
C33_ValidateBasicFirstFailure ==
    (out.kind # "none" /\ Validated) =>
        IF Len(TheBatch.Signatures) # Len(Signers)
        THEN RefusedEarly("Unauthorized")
        ELSE \A i \in 1..Len(TheBatch.Messages) :
                (BadMsg(i) /\ \A j \in 1..(i - 1) : ~BadMsg(j)) =>
                    RefusedEarly(IF MsgType(TheBatch.Messages[i]) = TypeTxEthereum
                                 THEN "TxDecode"
                                 ELSE MsgValidateBasic(TheBatch.Messages[i]))

\* A message that fails its own validation, then one of the Ethereum type,
\* with the one signature required: the first message's error comes back.
C33_Witness ==
    /\ Validated /\ Len(TheBatch.Messages) = 2 /\ Len(TheBatch.Signatures) = Len(Signers)
    /\ MsgValidateBasic(TheBatch.Messages[1]) = "UnknownRequest"
    /\ MsgType(TheBatch.Messages[2]) = TypeTxEthereum
    /\ RefusedEarly("UnknownRequest")

\* The call got as far as the loop over the signatures: it went through
\* embedded validation and the batch passed ValidateBasic.
InSignerLoop == Validated /\ ValidateBasic(TheBatch) = ""

\* C34: a call changes the account store only inside embedded validation,
\* after the batch passed ValidateBasic: every call that ends at the type
\* check, the chain id, the outer signature, the decoding of the payload or
\* ValidateBasic, or in the acceptance of a plain transfer, leaves every
\* account as it was and writes nothing.
C34_StoreChangesOnlyInSignerLoop ==
    (out.kind # "none" /\ ~InSignerLoop) =>
        /\ out.store = out.pre
        /\ \A a \in Addrs : Writes(a) = {}

\* A batch whose one message fails its own validation, with the signer's
\* account present and a signature that would verify: nothing is written.
C34_Witness ==
    /\ Validated /\ ValidateBasic(TheBatch) = "UnknownRequest"
    /\ Signers = <<"A">> /\ out.pre["A"] # NoAccount
    /\ TheBatch.Signatures
          = <<EmbSign("A", SignBytes(TheBatch, ctxChainID, 0, out.pre["A"]))>>
    /\ build = "nocgo"
    /\ out.kind = "return" /\ out.abort /\ out.store = out.pre

\* C36: for every gasLimit of the unsigned range, its upper half included,
\* the meter the pipeline installs has the limit gasLimit, and an
\* out-of-gas result reports GasWanted = gasLimit.
C36_MeterLimitIsGasLimit ==
    (out.entry = "EthAnteHandler" /\ out.metered) =>
        /\ out.limit = tx.gasLimit
        /\ out.code = "OutOfGas" => out.gasWanted = tx.gasLimit

\* A limit of the lower half: the meter has it.
C36_Witness ==
    /\ out.entry = "EthAnteHandler" /\ out.metered
    /\ tx.gasLimit = MaxGas /\ out.limit = MaxGas
    /\ out.kind = "return" /\ ~out.abort /\ Validated

\* C37: over any sequence of handler calls and account creations no existing
\* account's sequence ever decreases, and one handler call changes an
\* account's sequence by 0 or by exactly 1, never by 2 or more, also when
\* several messages of the batch declare the same address.
C37_SequenceStepsByOne ==
    [][\A a \in Addrs :
          accounts[a] # NoAccount =>
              accounts'[a] \in {accounts[a], accounts[a] + 1}]_vars

\* Two messages that declare the same 20-byte signer A: A goes up by one.
C37_Witness ==
    /\ Validated /\ out.kind = "return" /\ ~out.abort
    /\ Len(TheBatch.Messages) = 2
    /\ \A i \in 1..2 : MsgGetSigners(TheBatch.Messages[i]) = <<AccA>>
    /\ out.store["A"] = out.pre["A"] + 1

\* The batch of the last call passed ValidateBasic, has a required signer,
\* every required signer has an account, and each signature is the
\* required signer's own over the sign document of another chain id than
\* the context's.
SignedForOtherChain ==
    /\ out.kind # "none" /\ InSignerLoop /\ Signers # <<>>
    /\ \A i \in 1..Len(Signers) :
          /\ out.pre[Signers[i]] # NoAccount
          /\ TheBatch.Signatures[i] \notin {Malformed, Unrecoverable}
          /\ TheBatch.Signatures[i].key = Signers[i]
          /\ TheBatch.Signatures[i].doc.ChainID # ctxChainID

\* C40: a batch with a required signer whose signatures were made over the
\* sign document for chain id X is rejected with abort=true and
\* Unauthorized when validated under a context chain id Y other than X,
\* whatever the signers' sequences, and no sequence changes.
C40_OtherChainBatchUnauthorized ==
    SignedForOtherChain =>
        /\ out.kind = "return" /\ out.abort /\ out.code = "Unauthorized"
        /\ out.store = out.pre

\* Signed for "1" over the sequence A has, validated under "2": Unauthorized.
C40_Witness ==
    /\ SignedForOtherChain /\ ctxChainID = Decimal(2)
    /\ Signers = <<"A">> /\ out.pre["A"] = 1
    /\ TheBatch.Signatures[1] = EmbSign("A", SignBytes(TheBatch, EmbChainID, 0, 1))
    /\ out.kind = "return" /\ out.abort /\ out.code = "Unauthorized"
    /\ out.store = out.pre

\* The outcome is one that the embedded route gives: the payload was
\* decoded and the signatures were counted.
EmbeddedOutcome ==
    IF GetEmbeddedTx(tx).err # "" THEN RefusedEarly("TxDecode")
    ELSE IF Len(TheBatch.Signatures) # Len(Signers) THEN RefusedEarly("Unauthorized")
    ELSE Validated /\ (Signers # <<>> => Reads # {})

\* The outcome is the acceptance of a plain transfer.
PlainOutcome == out.kind = "return" /\ ~out.abort /\ IsOK(out) /\ StoreUntouched

\* C39: the pipeline routes by the process-wide reserved address alone.
\* While SetSDKAddress has not been called that address is the zero
\* address, so exactly the transactions to the zero address go to embedded
\* validation; the sdkAddress the handler was created with has no effect.
C39_RoutingByProcessWideAddress ==
    OuterVerified =>
        /\ out.reserved = IF sdkAddressOnce THEN sdkAddress ELSE ZeroAddr
        /\ IF tx.recipient = out.reserved THEN EmbeddedOutcome ELSE PlainOutcome

\* The handler was created with R, SetSDKAddress was never called: a
\* transaction sent to the zero address has its payload decoded.
C39_Witness ==
    /\ OuterVerified /\ ~sdkAddressOnce /\ argSDKAddress = "R"
    /\ tx.recipient = ZeroAddr /\ tx.payload = RawPayload("junk")
    /\ RefusedEarly("TxDecode")

\* What a run gave its caller: how it ended, result, abort flag, gas and
\* the store it left.  `replay` is the model's own note and no part of it.
Outcome(o) == [o EXCEPT !.replay = FALSE, !.seed = "forward"]

\* The call in flight is the second run on the transaction in hand.
SecondRun == out.kind # "none" /\ prevRun.kind = "run"

\* The outer-signature step of a run that got to it: TRUE for verified.
OuterVerdict(t, chainID) == DeriveSender(t, SetStringValue(chainID)).ok

\* The run got to the outer-signature step.
ReachedOuter(o, t, chainID) ==
    o.goType = "types.Transaction" /\ SetStringOK(chainID) /\ ~ConvertPanics(t)

\* The run was refused at the outer-signature step, as its caller sees it.
RefusedAtOuter(o) ==
    /\ o.kind = "return" /\ o.abort /\ o.code = "Unauthorized"
    /\ o.events = <<>> /\ o.consumed = 0 /\ o.store = o.pre

\* C35: validation is read-only on the transaction.  After ConvertTx
\* returns the receiver equals what it was called on; while the caller
\* holds a transaction, through ConvertTx and every handler run, it equals
\* the transaction as received in all nine fields and its sender cache is
\* empty; and a second run under the same context chain id gets the same
\* outer-signature verdict as the first: the signature of the transaction
\* in hand verifies exactly when that of the transaction as received did,
\* and a transaction that is not routed to embedded validation is refused
\* as Unauthorized by the second run exactly when it was by the first.
C35_ValidationReadOnly ==
    /\ call.op = "ConvertTx" => tx = call.tx
    /\ prevRun.kind # "none" => tx = prevRun.sent /\ FromCache(tx) = NoFrom
    /\ (SecondRun /\ ctxChainID = prevRun.chainID /\ out.goType = prevRun.out.goType
            /\ ReachedOuter(out, prevRun.sent, ctxChainID))
         => /\ OuterVerified <=> OuterVerdict(prevRun.sent, prevRun.chainID)
            /\ prevRun.sent.recipient \notin {out.reserved, prevRun.out.reserved}
                  => (RefusedAtOuter(out) <=> RefusedAtOuter(prevRun.out))

\* A transaction signed for chain 1 went through ConvertTx and a run under
\* chain id 1, both of which verified it, and is verified by a second run.
C35_Witness ==
    /\ SecondRun /\ tx = SignedFor(TwicePlain, 1) /\ tx.V = 37
    /\ call.op = "ConvertTx" /\ call.kind = "return" /\ call.result.chainID = 1
    /\ ctxChainID = Decimal(1) /\ prevRun.chainID = Decimal(1)
    /\ prevRun.out.kind = "return" /\ ~prevRun.out.abort
    /\ OuterVerified /\ PlainOutcome

\* The second run has what the first had: the transaction, the context
\* chain id, the reserved address and the store contents.
SameRunAgain ==
    /\ SecondRun
    /\ tx = prevRun.sent /\ out.goType = prevRun.out.goType
    /\ out.entry = prevRun.out.entry /\ out.etx = prevRun.out.etx
    /\ out.entry = "embeddedAnteHandler" => out.limit = prevRun.out.limit
    /\ ctxChainID = prevRun.chainID
    /\ out.reserved = prevRun.out.reserved
    /\ out.pre = prevRun.out.pre

====
